---- MODULE Spec2Model ----
(***************************************************************************)
(* Interview portal: the socket.io session coordinator of the backend      *)
(* (src/unnamed/part_000, io.on('connection') and its helpers) and the     *)
(* scoring state of the candidate's page                                   *)
(* (src/frontend/src/pages/CandidateInterview.tsx).                        *)
(*                                                                         *)
(* The server is single threaded: each socket handler runs to completion,  *)
(* so every handler is one action.  Optional fields of InterviewSession    *)
(* (output, isInstructionPhase, instructionTimeRemaining,                  *)
(* codingTimeRemaining, lastTimerUpdate) are modelled as sequences of      *)
(* length 0 (undefined) or 1 (the value).                                  *)
(***************************************************************************)
EXTENDS Integers, Sequences, FiniteSets, TLC

----------------------------------------------------------------------------
(* Bounds of the model *)

\* number of sessions that create-session may allocate
MaxSessions == 1
\* number of client connections (sockets)
MaxSockets == 2
\* number of times the wall clock is advanced (Spec)
MaxAdvances == 1
\* number of times the wall clock is advanced (SpecTimer)
MaxTimerAdvances == 1
\* number of events in a logged run (SpecEdit)
MaxHistory == 4
\* number of events in a logged run (SpecDrift)
MaxDriftEvents == 5
\* number of sessions created (SpecRegistry)
MaxRegistered == 2
\* seconds before the end of the coding phase in which the variant may
\* change (SpecCountdown)
VariantChangeWindow == 2

----------------------------------------------------------------------------
(* Program constants *)

\* `session.instructionTimeRemaining ?? 60`
DefaultInstructionTime == 60
\* `session.codingTimeRemaining ?? 900`
DefaultCodingTime == 900
\* divisor of `(Date.now() - session.lastTimerUpdate) / 1000`
MsPerSecond == 1000
\* the maximum of `Score: x/10.0 points` and of `Math.min(total, 10)`
ScoreMaximum == 10
\* `useState(60)`: the seconds of the instruction phase
InstructionDuration == 60
\* `useState(15 * 60)`, `15 * 60 - timeRemaining`: the seconds of the coding
\* phase
CodingDuration == 900

----------------------------------------------------------------------------
(* Input domains *)

\* one identifier more than can be allocated: some id is always absent
SessionIds == 1..(MaxSessions + 1)
Sockets == 1..MaxSockets
\* Date.now() when the process starts, in milliseconds: any positive instant
StartTime == 1 * MsPerSecond
\* amounts by which the wall clock advances between two events (ms)
ClockSteps == {600, 47000}
\* the one step of Spec
LongStep == {47000}

\* an undefined optional value, and a defined one
Undefined == <<>>
Some(v) == <<v>>
IsDefined(x) == x # <<>>

\* `x ?? d`
Nullish(x, d) == IF x = Undefined THEN d ELSE x[1]
\* truthiness of an optional number (`if (session.lastTimerUpdate)`)
TruthyNumber(x) == x # Undefined /\ x[1] # 0
\* truthiness of an optional boolean (`if (session.isInstructionPhase)`)
TruthyFlag(x) == x # Undefined /\ x[1]

\* a reconciliation that forgot the floor at zero
MaxNoFloor(a, b) == b
\* Math.max(a, b)
Max(a, b) == IF a >= b THEN a ELSE b
\* Math.floor(a / b) for b > 0 (\div rounds towards minus infinity)
Floor(a, b) == a \div b

\* A source text is the set of <<region, token>> facts the grading patterns
\* can observe in it: region "" is the whole source, any other region is
\* the body of the method of that name when its extraction pattern matches.
defaultCode ==
  { <<"", "wait = new WebDriverWait">>,
    <<"", "By.linkText">>,
    <<"", ":nth-child">>,
    <<"getErrorMessage", "driver.findElement(errorMessage)">> }
FixedCode ==
  { <<"", "wait = new WebDriverWait">>,
    <<"login", "wait.until">>,
    <<"login", "elementToBeClickable">>,
    <<"getErrorMessage", "wait.until">>,
    <<"getErrorMessage", "visibilityOfElementLocated">> }
PartialCode ==
  { <<"", "wait = new WebDriverWait">>,
    <<"login", "driver.findElement">>,
    <<"getErrorMessage", "driver.findElement(errorMessage)">> }
EmptyCode == {}
\* a text in which every selenium-senior rule finds its fix
SeniorFixedCode ==
  { <<"", "SecureLoginPage(){this.wait = new WebDriverWait">>,
    <<"enterMethodCode", "wait.until">>,
    <<"enterMethodCode", "visibilityOfElementLocated">>,
    <<"errorMethodCode", "wait.until">>,
    <<"errorMethodCode", "visibilityOfElementLocated">>,
    <<"loadMethodCode", "wait.until">>,
    <<"clickMethodCode", "wait.until">>,
    <<"clickMethodCode", "elementToBeClickable">>,
    <<"dataMethodCode", "wait.until">>,
    <<"dataMethodCode", "visibilityOfElementLocated">>,
    <<"notifMethodCode", "wait.until">>,
    <<"notifMethodCode", "presenceOfElementLocated">>,
    <<"fillMethodCode", "By.id(\"name\")">>,
    <<"fillMethodCode", "By.id(\"email\")">>,
    <<"submitMethodCode", "By.id">> }
\* the same text with the three locator fixes of scenario 3 not made
SeniorSevenCode ==
  (SeniorFixedCode \ { <<"fillMethodCode", "By.id(\"name\")">>,
                        <<"fillMethodCode", "By.id(\"email\")">>,
                        <<"submitMethodCode", "By.id">> })
  \cup { <<"fillMethodCode", "/html/body/div[1]/div[2]/form/div[1]/input">>,
          <<"fillMethodCode", "nth-child(2)">>,
          <<"submitMethodCode", "By.linkText(\"Submit Registration\")">> }
\* and with only the fix of BUG 8 made out of those three
SeniorEightCode ==
  (SeniorSevenCode
     \ { <<"fillMethodCode", "/html/body/div[1]/div[2]/form/div[1]/input">> })
  \cup { <<"fillMethodCode", "By.id(\"name\")">> }
\* a text in which every java-calculator rule finds its fix
CalculatorFixedCode ==
  { <<"", "a + b">>,
    <<"", "add(){a + b">>,
    <<"", "subtract(){a - b">>,
    <<"", "multiply(){return result">>,
    <<"", "divide(){if (b == 0">>,
    <<"", "Math.pow(, exponent)">>,
    <<"", "average(){sum / numbers.length">>,
    <<"", "findMax(){if (numbers[i] > max)">>,
    <<"", "getHistorySize(){return history.size();">> }
\* a text in which every selenium-combined rule finds its fix
CombinedFixedCode ==
  FixedCode
  \cup { <<"addProductContent", "elementToBeClickable">>,
          <<"isProductContent", "textToBePresentInElement">>,
          <<"getCountContent", "presenceOfElementLocated">>,
          <<"fillFormContent", "">>,
          <<"fillFormContent", "By.id">> }
\* payloads of code-change and execute-code
Codes == {FixedCode, PartialCode}
\* the one payload of Spec
OneCode == {FixedCode}

\* variant identifiers carried by code-change, language-change, execute-code
Languages == {"selenium-pageobject", "python"}
\* the one variant of Spec
OneLanguage == {"selenium-pageobject"}
\* the configured variants, and one that has no rules
ConfiguredLanguages ==
  {"selenium-senior", "java-calculator", "selenium-combined",
   "selenium-pageobject", "selenium-waits", "selenium-locators"}
\* the <<code, language>> payloads of execute-code in SpecGrade: for every
\* configured variant a text that passes all its rules and one that does
\* not, a variant without rules, and a payload without code
GradedRuns ==
  { <<Some(SeniorFixedCode), "selenium-senior">>,
    <<Some(SeniorSevenCode), "selenium-senior">>,
    <<Some(CalculatorFixedCode), "java-calculator">>,
    <<Some(defaultCode), "java-calculator">>,
    <<Some(CombinedFixedCode), "selenium-combined">>,
    <<Some(defaultCode), "selenium-combined">>,
    <<Some(FixedCode), "selenium-pageobject">>,
    <<Some(PartialCode), "selenium-pageobject">>,
    <<Some(CombinedFixedCode), "selenium-waits">>,
    <<Some(PartialCode), "selenium-waits">>,
    <<Some(FixedCode), "selenium-locators">>,
    <<Some(defaultCode), "selenium-locators">>,
    <<Some(FixedCode), "python">>,
    <<Undefined, "selenium-senior">> }
\* the <<code, language>> payloads of execute-code in SpecRules: for every
\* configured variant the empty text, the starter text and a fixed text
RuleRuns ==
  { <<EmptyCode, l>> : l \in ConfiguredLanguages }
  \cup { <<defaultCode, l>> : l \in ConfiguredLanguages }
  \cup { <<SeniorFixedCode, "selenium-senior">>,
          <<CalculatorFixedCode, "java-calculator">>,
          <<CombinedFixedCode, "selenium-combined">>,
          <<FixedCode, "selenium-pageobject">>,
          <<CombinedFixedCode, "selenium-waits">>,
          <<CombinedFixedCode, "selenium-locators">> }
\* the payloads repeated in SpecReplay
ReplayedRuns ==
  { <<Some(SeniorSevenCode), "selenium-senior">>,
    <<Some(PartialCode), "selenium-pageobject">>,
    <<Some(PartialCode), "python">> }

\* payloads of timer-update
TimerPayloads ==
  { [isInstructionPhase |-> TRUE,  instructionTimeRemaining |-> 45,
     codingTimeRemaining |-> 900],
    [isInstructionPhase |-> FALSE, instructionTimeRemaining |-> 0,
     codingTimeRemaining |-> 120],
    [isInstructionPhase |-> FALSE, instructionTimeRemaining |-> 0,
     codingTimeRemaining |-> 30] }

\* the one payload of Spec
OneTimerPayload ==
  { [isInstructionPhase |-> FALSE, instructionTimeRemaining |-> 0,
     codingTimeRemaining |-> 120] }

\* payloads of create-session
CandidateNames == {"Ada"}
ProblemTitles == {"Selenium Debugging"}

\* payloads of test-submitted, less the sessionId
ResultPayloads ==
  { [score |-> 3, percentage |-> 30, isAutoSubmit |-> FALSE] }
\* the same results submitted by the button and by the timer
SubmitPayloads ==
  { [score |-> 3, percentage |-> 30, isAutoSubmit |-> auto] :
      auto \in BOOLEAN }

----------------------------------------------------------------------------
VARIABLES
  sessions,    \* the Map sessions: id -> InterviewSession
  connected,   \* the sockets currently connected to io
  rooms,       \* rooms[c]: the session rooms socket c has joined
  now,         \* Date.now(), in milliseconds
  advances,    \* how many times the clock was advanced
  last,        \* the event handled by the last step
  out,         \* the messages emitted by the last step
  history,     \* the events handled so far, where a run is logged
  client       \* the scoring state of the candidate's page

vars ==
  <<sessions, connected, rooms, now, advances, last, out, history, client>>

----------------------------------------------------------------------------
(* Emission *)

Msg(c, ev, sid, data) == [to |-> c, ev |-> ev, sid |-> sid, data |-> data]
\* socket.emit: to the calling socket only
SocketEmit(c, ev, sid, data) == { Msg(c, ev, sid, data) }
\* io.to(sessionId).emit: to the sockets in the room of the session
IoEmitToRoom(ev, sid, data) ==
  { Msg(d, ev, sid, data) : d \in {x \in connected : sid \in rooms[x]} }
\* io.emit: to every connected socket, the caller included
IoEmit(ev, sid, data) == { Msg(d, ev, sid, data) : d \in connected }
\* a broadcast that echoes to the caller
BroadcastEmitEcho(c, ev, sid, data) ==
  { Msg(d, ev, sid, data) : d \in connected }
\* socket.broadcast.emit: to every connected socket except the caller
BroadcastEmit(c, ev, sid, data) ==
  { Msg(d, ev, sid, data) : d \in connected \ {c} }

\* the messages of one event name among a set of emitted messages
Emitted(o, ev) == {m \in o : m.ev = ev}
\* the sockets a set of messages is delivered to
Receivers(o) == {m.to : m \in o}

\* the event a step handles: its name, the socket, the session addressed
\* and the rest of the payload
Event(ev, c, sid, payload) ==
  [ev |-> ev, from |-> c, sid |-> sid, payload |-> payload]
\* the sid of an event or message that carries no sessionId
NoSession == 0
NoPayload == [none |-> TRUE]

----------------------------------------------------------------------------
(* Timer reconciliation *)

\* elapsed time rounded up (Math.ceil) instead of down
ElapsedSecondsCeil(session, t) ==
  -Floor(-(t - session.lastTimerUpdate[1]), MsPerSecond)
\* Math.floor((Date.now() - session.lastTimerUpdate) / 1000)
ElapsedSeconds(session, t) == Floor(t - session.lastTimerUpdate[1], MsPerSecond)

getSessionWithAdjustedTimer(session, t) ==
  IF ~TruthyNumber(session.lastTimerUpdate) THEN session
  ELSE LET elapsedSeconds == ElapsedSeconds(session, t) IN
    IF elapsedSeconds <= 0 THEN session
    ELSE IF TruthyFlag(session.isInstructionPhase)
      THEN [session EXCEPT
             !.instructionTimeRemaining =
               Some(Max(0, Nullish(session.instructionTimeRemaining,
                                   DefaultInstructionTime) - elapsedSeconds)),
             !.codingTimeRemaining =
               Some(Nullish(session.codingTimeRemaining, DefaultCodingTime))]
      ELSE [session EXCEPT
             !.instructionTimeRemaining =
               Some(Nullish(session.instructionTimeRemaining,
                            DefaultInstructionTime)),
             !.codingTimeRemaining =
               Some(Max(0, Nullish(session.codingTimeRemaining,
                                   DefaultCodingTime) - elapsedSeconds))]

\* Array.from(sessions.values()).map(getSessionWithAdjustedTimer)
SessionsList(store, t) ==
  [id \in DOMAIN store |-> getSessionWithAdjustedTimer(store[id], t)]


----------------------------------------------------------------------------
(* Grading *)

\* a check that reads the text stored in the sessions, not the payload
IncludesStored(code, region, token) ==
  \E id \in DOMAIN sessions : <<region, token>> \in sessions[id].code
\* region.includes(token), where region is the text an extraction produced
Includes(code, region, token) == <<region, token>> \in code
\* code.match(pattern) found a match: the fact <<"", pattern>> is in the text
Matches(code, pattern) == <<"", pattern>> \in code
\* an extraction pattern matched, so its capture (and not a fallback) is read
Extracted(code, region) == <<region, "">> \in code

TestResult(name, passed, passMessage, failMessage) ==
  [name |-> name, passed |-> passed,
   message |-> IF passed THEN passMessage ELSE failMessage]

\* language === 'selenium-senior': 10 rules
SeleniumSeniorResults(code) ==
  LET hasWaitInit ==
        Matches(code, "SecureLoginPage(){this.wait = new WebDriverWait")
      hasWaitInEnter ==
        /\ Includes(code, "enterMethodCode", "wait.until")
        /\ (Includes(code, "enterMethodCode", "visibilityOfElementLocated")
            \/ Includes(code, "enterMethodCode", "elementToBeClickable"))
        /\ ~Includes(code, "enterMethodCode", "driver.findElement(usernameField)")
        /\ ~Includes(code, "enterMethodCode", "driver.findElement(passwordField)")
      hasWaitInError ==
        /\ Includes(code, "errorMethodCode", "wait.until")
        /\ Includes(code, "errorMethodCode", "visibilityOfElementLocated")
        /\ ~Includes(code, "errorMethodCode",
                     "driver.findElement(errorMessage).getText()")
      hasNoThreadSleep ==
        /\ ~Includes(code, "loadMethodCode", "Thread.sleep")
        /\ Includes(code, "loadMethodCode", "wait.until")
      hasClickableWait ==
        /\ Includes(code, "clickMethodCode", "wait.until")
        /\ Includes(code, "clickMethodCode", "elementToBeClickable")
        /\ ~Includes(code, "clickMethodCode",
                     "driver.findElement(By.id(\"edit-profile-btn\")).click()")
      hasWaitInDataLoaded ==
        /\ Includes(code, "dataMethodCode", "wait.until")
        /\ Includes(code, "dataMethodCode", "visibilityOfElementLocated")
        /\ ~Includes(code, "dataMethodCode",
                     "driver.findElement(By.id(\"profile-data\"))")
      hasWaitInNotification ==
        /\ Includes(code, "notifMethodCode", "wait.until")
        /\ Includes(code, "notifMethodCode", "presenceOfElementLocated")
        /\ ~Includes(code, "notifMethodCode",
                     "driver.findElement(By.className(\"notification-badge\"))")
      hasNoAbsoluteXPath ==
        /\ ~Includes(code, "fillMethodCode",
                     "/html/body/div[1]/div[2]/form/div[1]/input")
        /\ (Includes(code, "fillMethodCode", "By.id(\"name\")")
            \/ Includes(code, "fillMethodCode", "By.name("))
      hasNoNthChild ==
        /\ ~Includes(code, "fillMethodCode", "nth-child(2)")
        /\ (Includes(code, "fillMethodCode", "By.id(\"email\")")
            \/ Includes(code, "fillMethodCode", "By.name("))
      hasNoLinkText ==
        /\ ~Includes(code, "submitMethodCode",
                     "By.linkText(\"Submit Registration\")")
        /\ (Includes(code, "submitMethodCode", "By.id")
            \/ Includes(code, "submitMethodCode", "button[type=")
            \/ Includes(code, "submitMethodCode", "data-testid"))
  IN << TestResult("BUG 1", hasWaitInit,
          "PASS - WebDriverWait initialized in SecureLoginPage constructor",
          "FAIL - Add \"this.wait = new WebDriverWait(driver, Duration.ofSeconds(10));\" in constructor"),
        TestResult("BUG 2", hasWaitInEnter,
          "PASS - Explicit waits added in enterCredentials method",
          "FAIL - Replace driver.findElement with wait.until(ExpectedConditions.visibilityOfElementLocated(...))"),
        TestResult("BUG 3", hasWaitInError,
          "PASS - Explicit wait added for error message visibility",
          "FAIL - Add wait.until(ExpectedConditions.visibilityOfElementLocated(errorMessage)) before getText()"),
        TestResult("BUG 4", hasNoThreadSleep,
          "PASS - Thread.sleep removed and replaced with proper wait",
          "FAIL - Remove Thread.sleep and add wait.until(ExpectedConditions.visibilityOfElementLocated(...))"),
        TestResult("BUG 5", hasClickableWait,
          "PASS - elementToBeClickable wait added in clickEditButton",
          "FAIL - Use wait.until(ExpectedConditions.elementToBeClickable(...)) before clicking"),
        TestResult("BUG 6", hasWaitInDataLoaded,
          "PASS - Explicit wait added in isDataLoaded for AJAX completion",
          "FAIL - Add wait.until(ExpectedConditions.visibilityOfElementLocated(...)) before checking display"),
        TestResult("BUG 7", hasWaitInNotification,
          "PASS - Explicit wait added for notification badge presence",
          "FAIL - Add wait.until(ExpectedConditions.presenceOfElementLocated(...)) before getText()"),
        TestResult("BUG 8", hasNoAbsoluteXPath,
          "PASS - Absolute XPath replaced with stable locator (By.id or By.name)",
          "FAIL - Replace absolute XPath with By.id(\"name\") or By.name(\"fullName\")"),
        TestResult("BUG 9", hasNoNthChild,
          "PASS - Index-based CSS selector replaced with stable locator",
          "FAIL - Replace nth-child selector with By.id(\"email\") or By.name(\"emailAddress\")"),
        TestResult("BUG 10", hasNoLinkText,
          "PASS - linkText replaced with stable, locale-independent locator",
          "FAIL - Replace By.linkText with By.id(\"submit-btn\") or By.cssSelector(\"button[type='submit']\")") >>

\* language === 'java-calculator': 8 rules
JavaCalculatorResults(code) ==
  LET hasCorrectAdd ==
        Includes(code, "", "a + b") /\ Matches(code, "add(){a + b")
      hasCorrectSubtract ==
        Matches(code, "subtract(){a - b") /\ ~Matches(code, "subtract(){b - a")
      hasMultiplyReturn == Matches(code, "multiply(){return result")
      hasDivideCheck == Matches(code, "divide(){if (b == 0")
      hasCorrectPower ==
        Matches(code, "Math.pow(, exponent)")
        /\ ~Matches(code, "Math.pow(, exponent + 1)")
      hasCorrectAverage == Matches(code, "average(){sum / numbers.length")
      hasCorrectMax == Matches(code, "findMax(){if (numbers[i] > max)")
      hasCorrectHistorySize ==
        Matches(code, "getHistorySize(){return history.size();")
        /\ ~Matches(code, "return history.size() + 1")
  IN << TestResult("BUG 1", hasCorrectAdd,
          "PASS - Addition uses correct + operator (a + b)",
          "FAIL - Change \"a - b\" to \"a + b\" in add() method"),
        TestResult("BUG 2", hasCorrectSubtract,
          "PASS - Subtraction uses correct order (a - b)",
          "FAIL - Change \"b - a\" to \"a - b\" in subtract() method"),
        TestResult("BUG 3", hasMultiplyReturn,
          "PASS - multiply() returns result",
          "FAIL - Add \"return result;\" at end of multiply() method"),
        TestResult("BUG 4", hasDivideCheck,
          "PASS - divide() checks for division by zero",
          "FAIL - Add \"if (b == 0) throw new ArithmeticException()\" before dividing"),
        TestResult("BUG 5", hasCorrectPower,
          "PASS - power() uses correct exponent value",
          "FAIL - Remove \"+ 1\" from exponent in Math.pow()"),
        TestResult("BUG 6", hasCorrectAverage,
          "PASS - average() divides by correct array length",
          "FAIL - Remove \"- 1\" from denominator in average() method"),
        TestResult("BUG 7", hasCorrectMax,
          "PASS - findMax() uses correct > comparison",
          "FAIL - Change \"numbers[i] < max\" to \"numbers[i] > max\" in findMax()"),
        TestResult("BUG 8", hasCorrectHistorySize,
          "PASS - getHistorySize() returns correct history size",
          "FAIL - Remove \"+ 1\" from getHistorySize() return statement") >>

\* the checks of the Page Object rules (the same in selenium-combined and
\* selenium-pageobject)
\* a check of rule 1 that only accepts the assignment through `this`
hasWaitInitThisOnly(code) ==
  Includes(code, "", "this.wait = new WebDriverWait")
hasWaitInit(code) ==
  Includes(code, "", "this.wait = new WebDriverWait")
  \/ Includes(code, "", "wait = new WebDriverWait")
hasDirectFind(code) == Includes(code, "login", "driver.findElement")
hasWaitInLogin(code) ==
  Includes(code, "login", "wait.until")
  /\ Includes(code, "login", "elementToBeClickable")
hasDirectFindInError(code) ==
  Includes(code, "getErrorMessage", "driver.findElement(errorMessage)")
hasWaitInError(code) ==
  Includes(code, "getErrorMessage", "wait.until")
  /\ (Includes(code, "getErrorMessage", "visibilityOfElementLocated")
      \/ Includes(code, "getErrorMessage", "presenceOfElementLocated"))
\* the checks of the Wait Conditions rules (selenium-combined, selenium-waits)
hasThreadSleepInAdd(code) == Includes(code, "addProductContent", "Thread.sleep(")
hasClickableInAdd(code) ==
  Includes(code, "addProductContent", "elementToBeClickable")
hasTextWaitInCart(code) ==
  Includes(code, "isProductContent", "textToBePresentInElement")
hasBadgeWaitInCount(code) ==
  Includes(code, "getCountContent", "presenceOfElementLocated")
\* the checks of the Locator Strategy rules (selenium-combined,
\* selenium-locators); fillFormContent falls back to the whole text
hasAbsXPathInForm(code) ==
  IF Extracted(code, "fillFormContent")
  THEN Includes(code, "fillFormContent", "/html/body/div[1]")
  ELSE Includes(code, "", "/html/body/div[1]")
hasIndexInForm(code) == Includes(code, "", ":nth-child")
hasTextXPathInForm(code) == Includes(code, "", "contains(text(),")
hasLinkTextInSubmit(code) == Includes(code, "", "By.linkText")

\* language === 'selenium-combined': 11 rules
SeleniumCombinedResults(code) ==
  << TestResult("Scenario 1: Page Object Pattern - BUG 1", hasWaitInit(code),
       "PASS - WebDriverWait initialized in constructor",
       "FAIL - WebDriverWait object not initialized in constructor"),
     TestResult("Scenario 1: Page Object Pattern - BUG 2",
       ~hasDirectFind(code) /\ hasWaitInLogin(code),
       "PASS - Explicit waits added in login() method",
       "FAIL - login() method needs explicit waits before element interactions"),
     TestResult("Scenario 1: Page Object Pattern - BUG 3",
       ~hasDirectFindInError(code) /\ hasWaitInError(code),
       "PASS - Error message wait condition added",
       "FAIL - getErrorMessage() must wait for element visibility"),
     TestResult("Scenario 2: Wait Conditions - BUG 1", ~hasThreadSleepInAdd(code),
       "PASS - Thread.sleep replaced with proper waits",
       "FAIL - Thread.sleep found - replace with explicit WebDriverWait"),
     TestResult("Scenario 2: Wait Conditions - BUG 2", hasClickableInAdd(code),
       "PASS - Using elementToBeClickable() before click",
       "FAIL - addProductToCart() needs elementToBeClickable wait"),
     TestResult("Scenario 2: Wait Conditions - BUG 3", hasTextWaitInCart(code),
       "PASS - Cart update wait condition added",
       "FAIL - isProductInCart() needs textToBePresentInElement wait"),
     TestResult("Scenario 2: Wait Conditions - BUG 4", hasBadgeWaitInCount(code),
       "PASS - Badge wait condition added",
       "FAIL - getCartItemCount() needs presenceOfElementLocated wait"),
     TestResult("Scenario 3: Locator Strategy - BUG 1", ~hasAbsXPathInForm(code),
       "PASS - Absolute XPath removed",
       "FAIL - Replace absolute XPath with stable ID locator"),
     TestResult("Scenario 3: Locator Strategy - BUG 2", ~hasIndexInForm(code),
       "PASS - Index-based selector removed",
       "FAIL - Replace :nth-child selector with ID attribute"),
     TestResult("Scenario 3: Locator Strategy - BUG 3", ~hasTextXPathInForm(code),
       "PASS - Text-based XPath removed",
       "FAIL - Replace contains(text(),) XPath with ID locator"),
     TestResult("Scenario 3: Locator Strategy - BUG 4", ~hasLinkTextInSubmit(code),
       "PASS - LinkText replaced with stable locator",
       "FAIL - Replace By.linkText with button type selector") >>

\* case 'selenium-pageobject': 3 rules
SeleniumPageObjectResults(code) ==
  << TestResult("Test 1 (BUG 1): Fix WebDriverWait Initialization",
       hasWaitInit(code),
       "PASS - WebDriverWait initialized in constructor",
       "FAIL - WebDriverWait object not initialized in constructor"),
     TestResult("Test 2 (BUG 2): Fix Login Method Waits",
       ~hasDirectFind(code) /\ hasWaitInLogin(code),
       "PASS - Explicit waits added in login() method",
       "FAIL - login() method needs explicit waits before element interactions"),
     TestResult("Test 3 (BUG 3): Fix Error Message Wait",
       ~hasDirectFindInError(code) /\ hasWaitInError(code),
       "PASS - Error message wait condition added",
       "FAIL - getErrorMessage() must wait for element visibility") >>

\* a grading that skips the two rules of addProductToCart when the method
\* is not found
SeleniumWaitsResultsSkipping(code) ==
  LET rest ==
        << TestResult("Test 3 (BUG 3): Add Cart Update Wait", hasTextWaitInCart(code),
             "PASS - Cart update wait condition added in isProductInCart()",
             "FAIL - isProductInCart() needs textToBePresentInElement wait for cart update"),
           TestResult("Test 4 (BUG 4): Add Badge Presence Wait", hasBadgeWaitInCount(code),
             "PASS - Badge wait condition added in getCartItemCount()",
             "FAIL - getCartItemCount() needs presenceOfElementLocated wait for badge") >>
  IN IF \E f \in code : f[1] = "addProductContent"
     THEN << TestResult("Test 1 (BUG 1): Remove Thread.sleep", ~hasThreadSleepInAdd(code),
               "PASS - Thread.sleep replaced with proper waits",
               "FAIL - Thread.sleep found in addProductToCart() - replace with explicit WebDriverWait"),
             TestResult("Test 2 (BUG 2): Add Clickable Wait", hasClickableInAdd(code),
               "PASS - Using elementToBeClickable() before click in addProductToCart()",
               "FAIL - addProductToCart() needs elementToBeClickable wait before interaction") >>
          \o rest
     ELSE rest
\* case 'selenium-waits': 4 rules
SeleniumWaitsResults(code) ==
  << TestResult("Test 1 (BUG 1): Remove Thread.sleep", ~hasThreadSleepInAdd(code),
       "PASS - Thread.sleep replaced with proper waits",
       "FAIL - Thread.sleep found in addProductToCart() - replace with explicit WebDriverWait"),
     TestResult("Test 2 (BUG 2): Add Clickable Wait", hasClickableInAdd(code),
       "PASS - Using elementToBeClickable() before click in addProductToCart()",
       "FAIL - addProductToCart() needs elementToBeClickable wait before interaction"),
     TestResult("Test 3 (BUG 3): Add Cart Update Wait", hasTextWaitInCart(code),
       "PASS - Cart update wait condition added in isProductInCart()",
       "FAIL - isProductInCart() needs textToBePresentInElement wait for cart update"),
     TestResult("Test 4 (BUG 4): Add Badge Presence Wait", hasBadgeWaitInCount(code),
       "PASS - Badge wait condition added in getCartItemCount()",
       "FAIL - getCartItemCount() needs presenceOfElementLocated wait for badge") >>

\* case 'selenium-locators': 4 rules
SeleniumLocatorsResults(code) ==
  << TestResult("Test 1 (BUG 1): Fix Absolute XPath", ~hasAbsXPathInForm(code),
       "PASS - Absolute XPath removed from fillRegistrationForm()",
       "FAIL - fillRegistrationForm() has absolute XPath /html/body/... - use stable ID locator"),
     TestResult("Test 2 (BUG 2): Fix Index-Based Selector", ~hasIndexInForm(code),
       "PASS - Index-based selector removed from fillRegistrationForm()",
       "FAIL - fillRegistrationForm() has :nth-child selector - use ID attribute"),
     TestResult("Test 3 (BUG 3): Fix Text-Based XPath", ~hasTextXPathInForm(code),
       "PASS - Text-based XPath removed from fillRegistrationForm()",
       "FAIL - fillRegistrationForm() has contains(text(),) XPath - use ID locator"),
     TestResult("Test 4 (BUG 4): Fix LinkText Locator", ~hasLinkTextInSubmit(code),
       "PASS - LinkText replaced with stable locator in submitForm()",
       "FAIL - submitForm() uses By.linkText - use button type selector instead") >>

\* a default that pushes no outcome
UnknownResultsNone == << >>
\* default: a variant with no configured rules
UnknownResults ==
  << [name |-> "Unknown Test", passed |-> FALSE,
      message |-> "Select a debugging challenge to see test results"] >>

analyzeDebugFixes(code, language) ==
  IF language = "selenium-senior" THEN SeleniumSeniorResults(code)
  ELSE IF language = "java-calculator" THEN JavaCalculatorResults(code)
  ELSE IF language = "selenium-combined" THEN SeleniumCombinedResults(code)
  ELSE IF language = "selenium-pageobject" THEN SeleniumPageObjectResults(code)
  ELSE IF language = "selenium-waits" THEN SeleniumWaitsResults(code)
  ELSE IF language = "selenium-locators" THEN SeleniumLocatorsResults(code)
  ELSE UnknownResults

\* the icons execute-code puts in front of a test name, as sequences of
\* code points: the literals of the source file are the three characters
\* U+00E2 U+0153 U+2026 and the two characters U+00E2 U+0152
ServerPassIcon == <<226, 339, 8230>>
ServerFailIcon == <<226, 338>>

\* the text execute-code renders from the outcomes: the per-test lines
\* (icon, name, PASS or FAIL, message; the icon only in the scenarios
\* format) and the TEST SUMMARY box (Bugs Fixed, Score x/10.0, verdict)
RenderOutput(testResults, language) ==
  LET passedTests == Cardinality({i \in DOMAIN testResults : testResults[i].passed})
      totalTests == Len(testResults)
      totalPoints == passedTests * 1
      format == IF language = "selenium-senior" THEN "scenarios"
                ELSE IF language = "java-calculator" THEN "calculator"
                ELSE "legacy"
  IN [format |-> format,
      tests |-> [i \in DOMAIN testResults |->
                  [icon |-> IF format # "scenarios" THEN << >>
                            ELSE IF testResults[i].passed THEN ServerPassIcon
                            ELSE ServerFailIcon,
                   name |-> testResults[i].name,
                   passed |-> testResults[i].passed,
                   message |-> testResults[i].message]],
      bugsFixed |-> passedTests,
      totalTests |-> totalTests,
      score |-> totalPoints,
      outOf |-> ScoreMaximum,
      verdict |-> IF passedTests = totalTests THEN "excellent"
                  ELSE IF passedTests >= 7 THEN "good" ELSE "keep debugging"]

\* a success flag that is also set by the GOOD JOB branch
RenderSuccessLenient(testResults) ==
  Cardinality({i \in DOMAIN testResults : testResults[i].passed}) >= 7
\* the success flag execute-code derives from the outcomes
RenderSuccess(testResults) ==
  Cardinality({i \in DOMAIN testResults : testResults[i].passed})
    = Len(testResults)

----------------------------------------------------------------------------
\* the variables of one render that the callback of setInterval closes
\* over: the page's socket (none while the state `socket` is null, current
\* while it is the socket the page uses, closed once the page has replaced
\* it), the coding time and the grading results
RenderScope(cl) ==
  [socket |-> "current",
   timeRemaining |-> cl.timeRemaining,
   bugResults |-> cl.bugResults,
   totalPoints |-> cl.totalPoints,
   completedChallenges |-> cl.completedChallenges]

\* the page after mounting: the initial values of useState; the timer
\* effect ran in the first render, where `socket` was still null; the
\* socket effect created the page's socket for the initial variant
ClientInit ==
  [language |-> "selenium-senior",
   bugResults |-> << >>,
   totalPoints |-> 0,
   completedChallenges |-> {},
   isTestSubmitted |-> FALSE,
   isInstructionPhase |-> TRUE,
   instructionTimeRemaining |-> InstructionDuration,
   timeRemaining |-> CodingDuration,
   hasSession |-> FALSE,
   joined |-> FALSE,
   socketFor |-> "selenium-senior",
   scope |-> [socket |-> "none",
              timeRemaining |-> CodingDuration,
              bugResults |-> << >>,
              totalPoints |-> 0,
              completedChallenges |-> {}],
   outbox |-> << >>]

Init ==
  /\ sessions = << >>
  /\ connected = {}
  /\ rooms = [c \in Sockets |-> {}]
  /\ now = StartTime
  /\ advances = 0
  /\ last = Event("start", 0, NoSession, NoPayload)
  /\ out = {}
  /\ history = << >>
  /\ client = ClientInit

----------------------------------------------------------------------------
(* Handlers of io.on('connection') *)

\* a client connects: io.on('connection', socket)
Connect(c) ==
  /\ c \notin connected
  /\ connected' = connected \cup {c}
  /\ last' = Event("connection", c, NoSession, NoPayload)
  /\ out' = {}
  /\ UNCHANGED <<sessions, rooms, now, advances>>

\* a disconnect handler that deletes the sessions the socket had joined
StoreAfterDisconnectCleared(store, joined) ==
  [k \in DOMAIN store \ joined |-> store[k]]
\* the disconnect handler only logs: the Map holds what it held
StoreAfterDisconnect(store, joined) == store

\* socket.on('disconnect'): the handler only logs; socket.io drops the
\* socket from the server and from its rooms
Disconnect(c) ==
  /\ c \in connected
  /\ connected' = connected \ {c}
  /\ rooms' = [rooms EXCEPT ![c] = {}]
  /\ sessions' = StoreAfterDisconnect(sessions, rooms[c])
  /\ last' = Event("disconnect", c, NoSession, NoPayload)
  /\ out' = {}
  /\ UNCHANGED <<now, advances>>

\* wall-clock time passes between two events
Advance(d) ==
  /\ now' = now + d
  /\ advances' = advances + 1
  /\ last' = Event("clock", 0, NoSession, [ms |-> d])
  /\ out' = {}
  /\ UNCHANGED <<sessions, connected, rooms>>

\* a reconciliation that writes the adjusted sessions back to the Map
StoreAfterListingInPlace(store, t) == SessionsList(store, t)
\* getSessionWithAdjustedTimer returns `{...session, ...}`, a copy: the
\* Map holds after the listing what it held before
StoreAfterListing(store, t) == store

GetSessions(c) ==
  /\ c \in connected
  /\ out' = SocketEmit(c, "sessions-list", NoSession,
                       [list |-> SessionsList(sessions, now)])
  /\ sessions' = StoreAfterListing(sessions, now)
  /\ last' = Event("get-sessions", c, NoSession, NoPayload)
  /\ UNCHANGED <<connected, rooms, now, advances>>

\* the session literal of create-session
NewSession(sessionId, candidateName, problemTitle, t) ==
  [id |-> sessionId,
   candidateName |-> candidateName,
   problem |-> problemTitle,
   code |-> defaultCode,
   language |-> "selenium-senior",
   status |-> "waiting",
   output |-> Undefined,
   createdAt |-> t,
   isInstructionPhase |-> Undefined,
   instructionTimeRemaining |-> Undefined,
   codingTimeRemaining |-> Undefined,
   lastTimerUpdate |-> Undefined]

\* a store that holds the newest session only
MapSetAlone(store, id, session) == [k \in {id} |-> session]
\* sessions.set(id, session) on the Map
MapSet(store, id, session) ==
  [k \in DOMAIN store \cup {id} |-> IF k = id THEN session ELSE store[k]]

\* uuidv4(): an identifier no session has yet
CreateSession(c, candidateName, problemTitle) ==
  /\ c \in connected
  /\ \E sessionId \in SessionIds \ DOMAIN sessions :
       LET session == NewSession(sessionId, candidateName, problemTitle, now) IN
         /\ sessions' = MapSet(sessions, sessionId, session)
         /\ out' = IoEmit("session-created", sessionId, session)
         /\ last' = Event("create-session", c, sessionId,
                         [candidateName |-> candidateName,
                          problemTitle |-> problemTitle])
  /\ UNCHANGED <<connected, rooms, now, advances>>

\* a join-session handler that lost its check of the status
SessionNeverExpired(session) == FALSE
\* `session.status === 'completed'`: the join is refused
SessionExpired(session) == session.status = "completed"

\* session-expired sent with io.emit instead of socket.emit
ExpiredReplyToAll(c) ==
  IoEmit("session-expired", NoSession,
         [message |-> "This interview session has been completed and the link is no longer valid."])
\* socket.emit('session-expired', {message})
ExpiredReply(c) ==
  SocketEmit(c, "session-expired", NoSession,
             [message |-> "This interview session has been completed and the link is no longer valid."])

\* a join that subtracts the elapsed seconds from both fields
JoinAdjustedBoth(session, t) ==
  LET instructionTimeRemaining ==
        Nullish(session.instructionTimeRemaining, DefaultInstructionTime)
      codingTimeRemaining ==
        Nullish(session.codingTimeRemaining, DefaultCodingTime)
  IN IF TruthyNumber(session.lastTimerUpdate)
     THEN LET elapsedSeconds == ElapsedSeconds(session, t) IN
          [instructionTimeRemaining |->
             Max(0, instructionTimeRemaining - elapsedSeconds),
           codingTimeRemaining |->
             Max(0, codingTimeRemaining - elapsedSeconds)]
     ELSE [instructionTimeRemaining |-> instructionTimeRemaining,
           codingTimeRemaining |-> codingTimeRemaining]
\* join-session: the remaining times after subtracting the seconds elapsed
\* since lastTimerUpdate from the field the phase flag selects
JoinAdjustedTimer(session, t) ==
  LET instructionTimeRemaining ==
        Nullish(session.instructionTimeRemaining, DefaultInstructionTime)
      codingTimeRemaining ==
        Nullish(session.codingTimeRemaining, DefaultCodingTime)
  IN IF TruthyNumber(session.lastTimerUpdate)
     THEN LET elapsedSeconds == ElapsedSeconds(session, t) IN
       IF TruthyFlag(session.isInstructionPhase)
       THEN [instructionTimeRemaining |->
               Max(0, instructionTimeRemaining - elapsedSeconds),
             codingTimeRemaining |-> codingTimeRemaining]
       ELSE [instructionTimeRemaining |-> instructionTimeRemaining,
             codingTimeRemaining |->
               Max(0, codingTimeRemaining - elapsedSeconds)]
     ELSE [instructionTimeRemaining |-> instructionTimeRemaining,
           codingTimeRemaining |-> codingTimeRemaining]

\* a join that adjusts the times and leaves the old stamp
JoinedSessionUnstamped(session, t) ==
  LET adjusted == JoinAdjustedTimer(session, t) IN
    [session EXCEPT
       !.status = "active",
       !.instructionTimeRemaining = Some(adjusted.instructionTimeRemaining),
       !.codingTimeRemaining = Some(adjusted.codingTimeRemaining)]
\* the session as join-session leaves it in the store
JoinedSession(session, t) ==
  LET adjusted == JoinAdjustedTimer(session, t) IN
    [session EXCEPT
       !.status = "active",
       !.instructionTimeRemaining = Some(adjusted.instructionTimeRemaining),
       !.codingTimeRemaining = Some(adjusted.codingTimeRemaining),
       !.lastTimerUpdate = Some(t)]

\* the payload of session-data: the stored session with the phase flag
\* defaulted to true
SessionData(session) ==
  [session EXCEPT
     !.isInstructionPhase = Some(Nullish(session.isInstructionPhase, TRUE))]

\* session-not-found sent with io.emit instead of socket.emit
NotFoundReplyToAll(c) == IoEmit("session-not-found", NoSession, NoPayload)
\* socket.emit('session-not-found'): no payload
NotFoundReply(c) == SocketEmit(c, "session-not-found", NoSession, NoPayload)

JoinSession(c, sessionId) ==
  /\ c \in connected
  /\ last' = Event("join-session", c, sessionId, NoPayload)
  /\ IF sessionId \notin DOMAIN sessions
     THEN /\ out' = NotFoundReply(c)
          /\ UNCHANGED <<sessions, rooms>>
     ELSE IF SessionExpired(sessions[sessionId])
     THEN /\ out' = ExpiredReply(c)
          /\ UNCHANGED <<sessions, rooms>>
     ELSE LET session == JoinedSession(sessions[sessionId], now) IN
          /\ rooms' = [rooms EXCEPT ![c] = @ \cup {sessionId}]
          /\ sessions' = [sessions EXCEPT ![sessionId] = session]
          /\ out' = SocketEmit(c, "session-data", sessionId, SessionData(session))
                    \cup IoEmit("sessions-list", NoSession,
                                [list |-> SessionsList(sessions', now)])
  /\ UNCHANGED <<connected, now, advances>>

\* a code-change that only fills in a session still holding the starter code
CodeChangedFirstWins(session, code, language) ==
  [session EXCEPT !.code = IF @ = defaultCode THEN code ELSE @,
                  !.language = IF IsDefined(language) /\ language[1] # ""
                               THEN language[1] ELSE @]
\* code-change: the session after `session.code = code` and, for a truthy
\* language, `session.language = language`
CodeChanged(session, code, language) ==
  [session EXCEPT !.code = code,
                  !.language = IF IsDefined(language) /\ language[1] # ""
                               THEN language[1] ELSE @]

\* an edit that reaches every stored session
EditedEverySession(store, sessionId, session) ==
  [id \in DOMAIN store |-> [session EXCEPT !.id = id]]
\* `const session = sessions.get(sessionId)` and the assignments to its
\* fields: the store with the one session edited
EditedSession(store, sessionId, session) ==
  [store EXCEPT ![sessionId] = session]

CodeChange(c, sessionId, code, language) ==
  /\ c \in connected
  /\ last' = Event("code-change", c, sessionId,
                   [code |-> code, language |-> language])
  /\ IF sessionId \in DOMAIN sessions
     THEN LET session == CodeChanged(sessions[sessionId], code, language) IN
          /\ sessions' = EditedSession(sessions, sessionId, session)
          /\ out' = BroadcastEmit(c, "code-update", sessionId,
                      [code |-> code, language |-> session.language])
     ELSE /\ out' = {}
          /\ UNCHANGED sessions
  /\ UNCHANGED <<connected, rooms, now, advances>>

LanguageChange(c, sessionId, language) ==
  /\ c \in connected
  /\ last' = Event("language-change", c, sessionId, [language |-> language])
  /\ IF sessionId \in DOMAIN sessions
     THEN /\ sessions' = [sessions EXCEPT ![sessionId].language = language]
          /\ out' = BroadcastEmit(c, "language-update", sessionId,
                      [language |-> language])
     ELSE /\ out' = {}
          /\ UNCHANGED sessions
  /\ UNCHANGED <<connected, rooms, now, advances>>

\* a timer-update that stores the remaining times and not the phase flag
TimerUpdatedTimesOnly(session, payload, t) ==
  [session EXCEPT
     !.instructionTimeRemaining = Some(payload.instructionTimeRemaining),
     !.codingTimeRemaining = Some(payload.codingTimeRemaining),
     !.lastTimerUpdate = Some(t)]
\* timer-update: the session after the payload is stored and stamped
TimerUpdated(session, payload, t) ==
  [session EXCEPT
     !.isInstructionPhase = Some(payload.isInstructionPhase),
     !.instructionTimeRemaining = Some(payload.instructionTimeRemaining),
     !.codingTimeRemaining = Some(payload.codingTimeRemaining),
     !.lastTimerUpdate = Some(t)]

\* the timer-update broadcast moved out of the `if (session)` block
TimerNoticeUnguarded(store, sessionId, payload) ==
  IoEmit("timer-update", sessionId, payload)
\* io.emit('timer-update', {...}) inside `if (session)`
TimerNotice(store, sessionId, payload) ==
  IF sessionId \in DOMAIN store
  THEN IoEmit("timer-update", sessionId, payload)
  ELSE {}

TimerUpdate(c, sessionId, payload) ==
  /\ c \in connected
  /\ last' = Event("timer-update", c, sessionId, payload)
  /\ IF sessionId \in DOMAIN sessions
     THEN sessions' = [sessions EXCEPT
                        ![sessionId] = TimerUpdated(@, payload, now)]
     ELSE UNCHANGED sessions
  /\ out' = TimerNotice(sessions, sessionId, payload)
  /\ UNCHANGED <<connected, rooms, now, advances>>

\* a catch block that answers the caller only
ExecutionFailedToCaller(c, sessionId) ==
  SocketEmit(c, "execution-result", sessionId,
             [output |-> [format |-> "Test execution failed: "],
              success |-> FALSE])
\* the catch block of execute-code: a failed result to the caller and a
\* failed update to everyone, each with its own prefix before error.message
ExecutionFailed(c, sessionId) ==
  SocketEmit(c, "execution-result", sessionId,
             [output |-> [format |-> "Test execution failed: "],
              success |-> FALSE])
  \cup IoEmit("execution-update", sessionId,
               [output |-> [format |-> "Error: "], success |-> FALSE])

\* execute-code; code = Undefined is a payload without code, on which
\* `code.length` throws and the catch block runs
ExecuteCode(c, sessionId, code, language) ==
  /\ c \in connected
  /\ last' = Event("execute-code", c, sessionId,
                   [code |-> code, language |-> language])
  /\ IF IsDefined(code)
     THEN LET testResults == analyzeDebugFixes(code[1], language)
              output == RenderOutput(testResults, language)
              success == RenderSuccess(testResults)
          IN IF sessionId \in DOMAIN sessions
             THEN /\ sessions' = [sessions EXCEPT
                                   ![sessionId].output = Some(output)]
                  /\ out' = SocketEmit(c, "execution-result", sessionId,
                              [output |-> output, success |-> success])
                            \cup IoEmit("execution-update", sessionId,
                              [output |-> output, success |-> success])
             ELSE /\ out' = SocketEmit(c, "execution-result", sessionId,
                              [output |-> output, success |-> success])
                  /\ UNCHANGED sessions
     ELSE /\ out' = ExecutionFailed(c, sessionId)
          /\ UNCHANGED sessions
  /\ UNCHANGED <<connected, rooms, now, advances>>

PasteAttempt(c, sessionId) ==
  /\ c \in connected
  /\ last' = Event("paste-attempt", c, sessionId, NoPayload)
  /\ out' = IF sessionId \in DOMAIN sessions
            THEN IoEmit("paste-detected", sessionId,
                   [candidateName |-> sessions[sessionId].candidateName,
                    timestamp |-> now])
            ELSE {}
  /\ UNCHANGED <<sessions, connected, rooms, now, advances>>

\* a submission that completes the session only when the button sent it
SubmittedSessionByButton(session, results) ==
  IF results.isAutoSubmit THEN session
  ELSE [session EXCEPT !.status = "completed"]
\* test-submitted: the session after `session.status = 'completed'`;
\* results.isAutoSubmit is only logged
SubmittedSession(session, results) == [session EXCEPT !.status = "completed"]

\* test-submitted; results is the payload less its sessionId
TestSubmitted(c, sessionId, results) ==
  /\ c \in connected
  /\ last' = Event("test-submitted", c, sessionId, results)
  /\ sessions' = IF sessionId \in DOMAIN sessions
                 THEN [sessions EXCEPT
                        ![sessionId] = SubmittedSession(@, results)]
                 ELSE sessions
  /\ out' = IoEmit("candidate-test-results", sessionId, results)
  /\ UNCHANGED <<connected, rooms, now, advances>>

----------------------------------------------------------------------------
(* The candidate's page (CandidateInterview.tsx): its scoring state *)

\* the characters of the class [U+2705 U+274C] in the pattern that finds
\* the bug lines of an output
ClientPassIcon == <<9989>>
ClientFailIcon == <<10060>>
BugIconClass == {ClientPassIcon[1], ClientFailIcon[1]}
\* the names in which the pattern finds BUG and a number, by number
BugNames ==
  << "BUG 1", "BUG 2", "BUG 3", "BUG 4", "BUG 5",
     "BUG 6", "BUG 7", "BUG 8", "BUG 9", "BUG 10" >>

\* a pass that earns nothing and a fail that earns the point
BugPointsInverted(passed) == IF passed THEN 0 ELSE 1
\* `passed ? 1.0 : 0`
BugPoints(passed) == IF passed THEN 1 ELSE 0

\* line.match(/[icons]\s*BUG\s*(\d+):\s*(PASS|FAIL)/): the line of a test
\* matches when an icon of the class stands right before a name `BUG n`
BugLineMatches(test) ==
  /\ test.icon # << >>
  /\ test.icon[Len(test.icon)] \in BugIconClass
  /\ \E n \in DOMAIN BugNames : BugNames[n] = test.name

RECURSIVE ParseLines(_)
ParseLines(tests) ==
  IF tests = << >> THEN << >>
  ELSE LET test == Head(tests) IN
       (IF BugLineMatches(test)
        THEN << [bugNumber |-> CHOOSE n \in DOMAIN BugNames :
                                 BugNames[n] = test.name,
                 passed |-> test.passed,
                 points |-> BugPoints(test.passed)] >>
        ELSE << >>)
       \o ParseLines(Tail(tests))

\* the bugTestResults the execution-result handler parses from an output;
\* only the scenarios format prints an icon before the name of a test
ParseBugResults(output) ==
  IF output.format = "scenarios" THEN ParseLines(output.tests) ELSE << >>

\* Object.values(results).flat()
RECURSIVE AllBugs(_)
AllBugs(results) ==
  IF DOMAIN results = {} THEN << >>
  ELSE LET k == CHOOSE x \in DOMAIN results : TRUE IN
       results[k] \o AllBugs([x \in DOMAIN results \ {k} |-> results[x]])
\* .reduce((sum, bug) => sum + bug.points, 0)
RECURSIVE SumPoints(_)
SumPoints(bugs) ==
  IF bugs = << >> THEN 0 ELSE Head(bugs).points + SumPoints(Tail(bugs))

\* a minimum that never caps
MinUncapped(a, b) == a
\* Math.min(a, b)
Min(a, b) == IF a <= b THEN a ELSE b
\* Math.round(a / b) for a >= 0, b > 0
Round(a, b) == (2 * a + b) \div (2 * b)

\* an update that appends the new outcomes to those of the variant
BugResultsAppended(cl, bugTestResults) ==
  LET updatedResults ==
        [k \in DOMAIN cl.bugResults \cup {cl.language} |->
           IF k = cl.language
           THEN (IF k \in DOMAIN cl.bugResults THEN cl.bugResults[k] ELSE << >>)
                \o bugTestResults
           ELSE cl.bugResults[k]]
      total == SumPoints(AllBugs(updatedResults))
      cappedTotal == Min(total, ScoreMaximum)
  IN [cl EXCEPT !.bugResults = updatedResults, !.totalPoints = cappedTotal]
\* the setBugResults update of the execution-result handler
BugResultsUpdated(cl, bugTestResults) ==
  LET updatedResults ==
        [k \in DOMAIN cl.bugResults \cup {cl.language} |->
           IF k = cl.language THEN bugTestResults ELSE cl.bugResults[k]]
      total == SumPoints(AllBugs(updatedResults))
      cappedTotal == Min(total, ScoreMaximum)
  IN [cl EXCEPT !.bugResults = updatedResults, !.totalPoints = cappedTotal]

\* calculateScore; the totals are whole numbers of points
calculateScore(cl) ==
  LET allBugs == AllBugs(cl.bugResults)
      bugsPassed == Cardinality({i \in DOMAIN allBugs : allBugs[i].passed})
      totalBugs == Len(allBugs)
      rawScore == Round(cl.totalPoints * 10, 1) \div 10
      score == Min(rawScore, ScoreMaximum)
      percentage == Round(score * 100, ScoreMaximum)
  IN [score |-> score, percentage |-> percentage,
      bugsPassed |-> bugsPassed, totalBugs |-> totalBugs]

\* the socket effect has run for the page's current variant
Rendered(cl) == cl.socketFor = cl.language

\* socket.emit(ev, payload) through a socket of the page: the message is
\* in flight on the socket the page uses, and lost on a socket that is
\* null or that the page has closed
ClientEmit(cl, socket, ev, sessionId, payload) ==
  IF socket = "current"
  THEN [cl EXCEPT !.outbox =
          Append(@, [ev |-> ev, sid |-> sessionId, payload |-> payload])]
  ELSE cl

\* the timer effect, with dependencies isTestSubmitted and
\* isInstructionPhase: when the phase changed it installs a new interval
\* whose callback closes over the render that follows the change
TimerEffect(before, after) ==
  IF after.isInstructionPhase # before.isInstructionPhase
     /\ ~after.isTestSubmitted
  THEN [after EXCEPT !.scope = RenderScope(after)]
  ELSE after

\* socket.on('code-update'): a truthy language replaces the page's variant
ClientCodeUpdate(language) ==
  /\ client' = [client EXCEPT
                  !.language = IF IsDefined(language) /\ language[1] # ""
                               THEN language[1] ELSE @]
  /\ last' = Event("client code-update", 0, NoSession, [language |-> language])
  /\ out' = {}
  /\ UNCHANGED <<sessions, connected, rooms, now, advances>>

\* the socket effect, with dependencies sessionId and language: after the
\* variant changed its cleanup closes the page's socket, and with it what
\* was in flight, and the effect opens a new one; a callback that closed
\* over the old socket keeps it; a connected socket has sent what it
\* emitted before it is closed
PageSocketEffect(c) ==
  /\ ~Rendered(client)
  /\ c \in connected => client.outbox = << >>
  /\ client' = [client EXCEPT
                  !.socketFor = client.language,
                  !.joined = FALSE,
                  !.outbox = << >>,
                  !.scope.socket = IF @ = "current" THEN "closed" ELSE @]
  /\ IF c \in connected
     THEN Disconnect(c)
     ELSE /\ last' = Event("client socket", c, NoSession, NoPayload)
          /\ out' = {}
          /\ UNCHANGED <<sessions, connected, rooms, now, advances>>

\* output.includes('All tests passed'): the summary of a rendered text holds
\* its verdict, and no verdict of execute-code has these words
MentionsAllTestsPassed(output) == output.verdict = "All tests passed"

\* socket.on('execution-result')
ClientExecutionResult(output, success) ==
  /\ LET bugTestResults == ParseBugResults(output)
         scored == IF Len(bugTestResults) > 0
                   THEN BugResultsUpdated(client, bugTestResults)
                   ELSE client
     IN client' = IF success /\ MentionsAllTestsPassed(output)
                  THEN [scored EXCEPT
                          !.completedChallenges = @ \cup {client.language}]
                  ELSE scored
  /\ last' = Event("client execution-result", 0, NoSession,
                   [output |-> output, success |-> success])
  /\ out' = {}
  /\ UNCHANGED <<sessions, connected, rooms, now, advances>>

\* the payload of test-submitted, less sessionId, candidateName and
\* submittedAt, as handleSubmitTest computes it from the variables of the
\* render it was defined in
SubmittedResults(scope) ==
  LET r == calculateScore(scope) IN
    [score |-> r.score, percentage |-> r.percentage,
     bugsPassed |-> r.bugsPassed, totalBugs |-> r.totalBugs,
     completedChallenges |-> scope.completedChallenges,
     bugResults |-> scope.bugResults,
     timeUsed |-> CodingDuration - scope.timeRemaining,
     isAutoSubmit |-> scope.timeRemaining = 0]

\* handleSubmitTest of the render `scope`: test-submitted is emitted with the
\* results of that render and the page turns to the results screen
handleSubmitTest(cl, scope, sessionId) ==
  [ClientEmit(cl, scope.socket, "test-submitted", sessionId,
              SubmittedResults(scope))
     EXCEPT !.isTestSubmitted = TRUE]

\* the candidate presses Submit, which the editor shows and the instruction
\* phase disables: handleSubmitTest of the current render
SubmitButton(sessionId) ==
  /\ ~client.isTestSubmitted
  /\ ~client.isInstructionPhase
  /\ Rendered(client)
  /\ client' = handleSubmitTest(client, RenderScope(client), sessionId)
  /\ last' = Event("client submit", 0, sessionId, NoPayload)
  /\ out' = {}
  /\ UNCHANGED <<sessions, connected, rooms, now, advances>>

\* a countdown that takes a second off both counters
TickBoth(cl, sessionId) ==
  [cl EXCEPT !.instructionTimeRemaining = IF @ <= 1 THEN 0 ELSE @ - 1,
             !.timeRemaining = IF @ <= 1 THEN 0 ELSE @ - 1,
             !.isInstructionPhase = @ /\ cl.instructionTimeRemaining > 1]
\* the callback of setInterval: one second off the counter of the phase, a
\* timer-update through the socket of the callback's render, the switch to
\* the coding phase when the instruction counter runs out and
\* handleSubmitTest of the callback's render when the coding counter does
Tick(cl, sessionId) ==
  IF cl.isInstructionPhase
  THEN LET prev == cl.instructionTimeRemaining
           newTime == IF prev <= 1 THEN 0 ELSE prev - 1
           sent == ClientEmit(cl, cl.scope.socket, "timer-update", sessionId,
                     [isInstructionPhase |-> TRUE,
                      instructionTimeRemaining |-> newTime,
                      codingTimeRemaining |-> CodingDuration])
       IN [sent EXCEPT !.instructionTimeRemaining = newTime,
                       !.isInstructionPhase = ~(prev <= 1)]
  ELSE LET prev == cl.timeRemaining
           newTime == IF prev <= 1 THEN 0 ELSE prev - 1
           sent == ClientEmit(cl, cl.scope.socket, "timer-update", sessionId,
                     [isInstructionPhase |-> FALSE,
                      instructionTimeRemaining |-> 0,
                      codingTimeRemaining |-> newTime])
           counted == IF prev <= 1
                      THEN handleSubmitTest(sent, cl.scope, sessionId)
                      ELSE sent
       IN [counted EXCEPT !.timeRemaining = newTime]

\* one second passes on the page: the timer effect's interval fires, unless
\* the test is submitted; ticks are taken once the page holds its session
\* and what the previous tick sent has been handled
PageTick(sessionId) ==
  /\ ~client.isTestSubmitted
  /\ client.hasSession
  /\ Rendered(client)
  /\ client.outbox = << >>
  /\ client' = TimerEffect(client, Tick(client, sessionId))
  /\ last' = Event("client tick", 0, sessionId, NoPayload)
  /\ out' = {}
  /\ UNCHANGED <<sessions, connected, rooms, now, advances>>

\* the server handles the oldest message in flight from the page's socket
PageDeliver(c) ==
  /\ client.outbox # << >>
  /\ client' = [client EXCEPT !.outbox = Tail(@)]
  /\ LET m == Head(client.outbox) IN
       IF m.ev = "timer-update" THEN TimerUpdate(c, m.sid, m.payload)
       ELSE TestSubmitted(c, m.sid, m.payload)

\* socket.on('session-data'): the variant and the timer are restored
SessionDataReceived(cl, data) ==
  [cl EXCEPT
     !.hasSession = TRUE,
     !.language = IF data.language = "" THEN "selenium-senior"
                  ELSE data.language,
     !.isInstructionPhase = IF IsDefined(data.isInstructionPhase)
                            THEN data.isInstructionPhase[1] ELSE @,
     !.instructionTimeRemaining =
        IF IsDefined(data.instructionTimeRemaining)
        THEN data.instructionTimeRemaining[1] ELSE @,
     !.timeRemaining = IF IsDefined(data.codingTimeRemaining)
                       THEN data.codingTimeRemaining[1] ELSE @]

\* the page's handlers for what join-session answers to socket c
JoinAnswered(cl, c, o) ==
  IF \E m \in Emitted(o, "session-data") : m.to = c
  THEN LET m == CHOOSE x \in Emitted(o, "session-data") : x.to = c
       IN TimerEffect(cl, SessionDataReceived(cl, m.data))
  ELSE IF \E m \in Emitted(o, "session-expired") : m.to = c
  THEN [cl EXCEPT !.isTestSubmitted = TRUE]
  ELSE cl

\* newSocket.on('connect'): the page joins its session, after the socket
\* has sent what was emitted while it connected, and the server's answer
\* is handled
PageJoin(c, sessionId) ==
  /\ ~client.joined
  /\ client.outbox = << >>
  /\ Rendered(client)
  /\ JoinSession(c, sessionId)
  /\ client' = [JoinAnswered(client, c, out') EXCEPT !.joined = TRUE]

----------------------------------------------------------------------------
(* Specifications *)

OptionalOf(S) == {Undefined} \cup {Some(x) : x \in S}
\* the socket of the candidate's page
CandidateSockets == {1}
\* create-session while the model has room for another session
MayCreate == Cardinality(DOMAIN sessions) < MaxSessions

\* Spec: every handler, each with one payload per field
Next ==
  \/ \E c \in Sockets : Connect(c) /\ UNCHANGED <<history, client>>
  \/ \E c \in Sockets : Disconnect(c) /\ UNCHANGED <<history, client>>
  \/ \E d \in LongStep :
       advances < MaxAdvances /\ Advance(d) /\ UNCHANGED <<history, client>>
  \/ \E c \in Sockets : GetSessions(c) /\ UNCHANGED <<history, client>>
  \/ \E c \in Sockets, n \in CandidateNames, p \in ProblemTitles :
       MayCreate /\ CreateSession(c, n, p) /\ UNCHANGED <<history, client>>
  \/ \E c \in Sockets, s \in SessionIds :
       JoinSession(c, s) /\ UNCHANGED <<history, client>>
  \/ \E c \in Sockets, s \in SessionIds, code \in OneCode,
        l \in OptionalOf(OneLanguage) :
       CodeChange(c, s, code, l) /\ UNCHANGED <<history, client>>
  \/ \E c \in Sockets, s \in SessionIds, l \in OneLanguage :
       LanguageChange(c, s, l) /\ UNCHANGED <<history, client>>
  \/ \E c \in Sockets, s \in SessionIds, p \in OneTimerPayload :
       TimerUpdate(c, s, p) /\ UNCHANGED <<history, client>>
  \/ \E c \in Sockets, s \in SessionIds, code \in OptionalOf(OneCode),
        l \in OneLanguage :
       ExecuteCode(c, s, code, l) /\ UNCHANGED <<history, client>>
  \/ \E c \in Sockets, s \in SessionIds :
       PasteAttempt(c, s) /\ UNCHANGED <<history, client>>
  \/ \E c \in Sockets, s \in SessionIds, r \in ResultPayloads :
       TestSubmitted(c, s, r) /\ UNCHANGED <<history, client>>

Spec == Init /\ [][Next]_vars

\* SpecTimer: one client, the handlers that read or write the timer
\* snapshot, and a clock that advances by less and by more than a second
TimerSockets == {1}
NextTimer ==
  \/ \E c \in TimerSockets : Connect(c) /\ UNCHANGED <<history, client>>
  \/ \E d \in ClockSteps :
       advances < MaxTimerAdvances /\ Advance(d) /\ UNCHANGED <<history, client>>
  \/ \E c \in TimerSockets : GetSessions(c) /\ UNCHANGED <<history, client>>
  \/ \E c \in TimerSockets, n \in CandidateNames, p \in ProblemTitles :
       MayCreate /\ CreateSession(c, n, p) /\ UNCHANGED <<history, client>>
  \/ \E c \in TimerSockets, s \in SessionIds :
       JoinSession(c, s) /\ UNCHANGED <<history, client>>
  \/ \E c \in TimerSockets, s \in SessionIds, p \in TimerPayloads :
       TimerUpdate(c, s, p) /\ UNCHANGED <<history, client>>

SpecTimer == Init /\ [][NextTimer]_vars

\* SpecEdit: runs of at most MaxHistory handled events, logged in history,
\* in which the clients edit the code and the variant of a session
Logged ==
  /\ Len(history) < MaxHistory /\ history' = Append(history, last')
  /\ UNCHANGED client
NextEdit ==
  \/ \E c \in Sockets : Connect(c) /\ UNCHANGED <<history, client>>
  \/ \E c \in Sockets, n \in CandidateNames, p \in ProblemTitles :
       MayCreate /\ CreateSession(c, n, p) /\ Logged
  \/ \E c \in Sockets, s \in SessionIds, code \in Codes,
        l \in OptionalOf(OneLanguage) :
       CodeChange(c, s, code, l) /\ Logged
  \/ \E c \in Sockets, s \in SessionIds, l \in OneLanguage :
       LanguageChange(c, s, l) /\ Logged

SpecEdit == Init /\ [][NextEdit]_vars

\* SpecDrift: one client reports the timer and rejoins while the clock
\* advances; the timer-update, clock and join-session events are logged
DriftLogged ==
  /\ Len(history) < MaxDriftEvents /\ history' = Append(history, last')
  /\ UNCHANGED client
NextDrift ==
  \/ \E c \in TimerSockets : Connect(c) /\ UNCHANGED <<history, client>>
  \/ \E c \in TimerSockets, n \in CandidateNames, p \in ProblemTitles :
       MayCreate /\ CreateSession(c, n, p) /\ UNCHANGED <<history, client>>
  \/ \E d \in ClockSteps : Advance(d) /\ DriftLogged
  \/ \E c \in TimerSockets, s \in SessionIds :
       JoinSession(c, s) /\ DriftLogged
  \/ \E c \in TimerSockets, s \in SessionIds, p \in TimerPayloads :
       TimerUpdate(c, s, p) /\ DriftLogged

SpecDrift == Init /\ [][NextDrift]_vars

\* SpecGrade: the clients run every variant on a range of source texts, on
\* sessions in every status and on an absent session
NextGrade ==
  \/ \E c \in Sockets : Connect(c) /\ UNCHANGED <<history, client>>
  \/ \E c \in Sockets, n \in CandidateNames, p \in ProblemTitles :
       MayCreate /\ CreateSession(c, n, p) /\ UNCHANGED <<history, client>>
  \/ \E c \in Sockets, s \in SessionIds :
       JoinSession(c, s) /\ UNCHANGED <<history, client>>
  \/ \E c \in Sockets, s \in SessionIds, r \in ResultPayloads :
       TestSubmitted(c, s, r) /\ UNCHANGED <<history, client>>
  \/ \E c \in Sockets, s \in SessionIds, run \in GradedRuns :
       ExecuteCode(c, s, run[1], run[2]) /\ UNCHANGED <<history, client>>

SpecGrade == Init /\ [][NextGrade]_vars

\* SpecReplay: execute-code requests are repeated while the session is
\* created, joined and completed and the clock advances; history holds one
\* earlier request, any one, with the results it was answered
ResultsIn(o) == {m.data : m \in Emitted(o, "execution-result")}
Remembered ==
  /\ UNCHANGED client
  /\ \/ UNCHANGED history
     \/ /\ history = << >>
        /\ history' = << [event |-> last', at |-> now,
                          results |-> ResultsIn(out')] >>
NextReplay ==
  \/ \E c \in Sockets : Connect(c) /\ UNCHANGED <<history, client>>
  \/ \E d \in LongStep :
       advances < MaxAdvances /\ Advance(d) /\ UNCHANGED <<history, client>>
  \/ \E c \in Sockets, n \in CandidateNames, p \in ProblemTitles :
       MayCreate /\ CreateSession(c, n, p) /\ UNCHANGED <<history, client>>
  \/ \E c \in Sockets, s \in SessionIds :
       JoinSession(c, s) /\ UNCHANGED <<history, client>>
  \/ \E c \in Sockets, s \in SessionIds, r \in ResultPayloads :
       TestSubmitted(c, s, r) /\ UNCHANGED <<history, client>>
  \/ \E c \in Sockets, s \in SessionIds, run \in ReplayedRuns :
       ExecuteCode(c, s, run[1], run[2]) /\ Remembered

SpecReplay == Init /\ [][NextReplay]_vars

\* SpecRegistry: up to MaxRegistered sessions are created, joined and
\* submitted, by the button and by the timer, while the clock advances
MayRegister == Cardinality(DOMAIN sessions) < MaxRegistered
NextRegistry ==
  \/ \E c \in Sockets : Connect(c) /\ UNCHANGED <<history, client>>
  \/ \E d \in LongStep :
       advances < MaxAdvances /\ Advance(d) /\ UNCHANGED <<history, client>>
  \/ \E c \in Sockets, n \in CandidateNames, p \in ProblemTitles :
       MayRegister /\ CreateSession(c, n, p) /\ UNCHANGED <<history, client>>
  \/ \E c \in Sockets, s \in SessionIds :
       JoinSession(c, s) /\ UNCHANGED <<history, client>>
  \/ \E c \in Sockets, s \in SessionIds, r \in SubmitPayloads :
       TestSubmitted(c, s, r) /\ UNCHANGED <<history, client>>

SpecRegistry == Init /\ [][NextRegistry]_vars

\* two sessions side by side, each event addressed to one of them (C37,
\* C38): both sockets connect and join, the candidate's socket sends the
\* other events
NextIsolation ==
  \/ \E c \in Sockets : Connect(c) /\ UNCHANGED <<history, client>>
  \/ \E c \in Sockets, n \in CandidateNames, p \in ProblemTitles :
       MayRegister /\ CreateSession(c, n, p) /\ UNCHANGED <<history, client>>
  \/ \E c \in Sockets, s \in DOMAIN sessions :
       JoinSession(c, s) /\ UNCHANGED <<history, client>>
  \/ \E c \in CandidateSockets, s \in DOMAIN sessions, code \in OneCode,
        l \in OptionalOf(OneLanguage) :
       CodeChange(c, s, code, l) /\ UNCHANGED <<history, client>>
  \/ \E c \in CandidateSockets, s \in DOMAIN sessions, l \in OneLanguage :
       LanguageChange(c, s, l) /\ UNCHANGED <<history, client>>
  \/ \E c \in CandidateSockets, s \in DOMAIN sessions, p \in OneTimerPayload :
       TimerUpdate(c, s, p) /\ UNCHANGED <<history, client>>
  \/ \E c \in CandidateSockets, s \in DOMAIN sessions, code \in OneCode,
        l \in OneLanguage :
       ExecuteCode(c, s, Some(code), l) /\ UNCHANGED <<history, client>>
  \/ \E c \in CandidateSockets, s \in DOMAIN sessions :
       PasteAttempt(c, s) /\ UNCHANGED <<history, client>>
  \/ \E c \in CandidateSockets, s \in DOMAIN sessions, r \in ResultPayloads :
       TestSubmitted(c, s, r) /\ UNCHANGED <<history, client>>

SpecIsolation == Init /\ [][NextIsolation]_vars

\* SpecRules: one client runs every configured variant on the empty text,
\* on the starter text and on a fixed text
NextRules ==
  \/ \E c \in CandidateSockets : Connect(c) /\ UNCHANGED <<history, client>>
  \/ \E c \in CandidateSockets, n \in CandidateNames, p \in ProblemTitles :
       MayCreate /\ CreateSession(c, n, p) /\ UNCHANGED <<history, client>>
  \/ \E c \in CandidateSockets, s \in SessionIds, run \in RuleRuns :
       ExecuteCode(c, s, Some(run[1]), run[2]) /\ UNCHANGED <<history, client>>

SpecRules == Init /\ [][NextRules]_vars

\* SpecClient: the candidate's page receives code-update and execution-result
\* messages and submits; history holds the page's state before its last step
\* the texts execute-code renders for the selenium-senior runs of the page
SeniorOutputs ==
  { RenderOutput(analyzeDebugFixes(code, "selenium-senior"), "selenium-senior") :
      code \in {defaultCode, SeniorSevenCode, SeniorEightCode, SeniorFixedCode} }
\* a text whose lines carry the icons pass and fail
WithIcons(output, pass, fail) ==
  [output EXCEPT
     !.tests = [i \in DOMAIN output.tests |->
                 [output.tests[i] EXCEPT
                    !.icon = IF output.tests[i].passed THEN pass ELSE fail]]]
\* the output texts an execution-result may carry: what this server renders,
\* and the same texts with the icons of the page's pattern
ReceivedOutputs ==
  SeniorOutputs
  \cup { WithIcons(o, ClientPassIcon, ClientFailIcon) : o \in SeniorOutputs }
  \cup { RenderOutput(analyzeDebugFixes(PartialCode, "selenium-pageobject"),
                      "selenium-pageobject") }
\* the variants a code-update may carry
ClientLanguages == {"selenium-senior", "selenium-pageobject"}
PageStep == history' = << client >>
\* execution-result answers the page's own execute-code, which the editor
\* sends and the results screen does not
MayRun == ~client.isTestSubmitted
NextClient ==
  \/ \E c \in Sockets : Connect(c) /\ UNCHANGED <<history, client>>
  \/ \E c \in Sockets, n \in CandidateNames, p \in ProblemTitles :
       MayCreate /\ CreateSession(c, n, p) /\ UNCHANGED <<history, client>>
  \/ \E c \in Sockets \ CandidateSockets, s \in DOMAIN sessions,
        p \in OneTimerPayload :
       /\ ~client.hasSession
       /\ TimerUpdate(c, s, p) /\ UNCHANGED <<history, client>>
  \/ \E c \in CandidateSockets, s \in DOMAIN sessions :
       PageJoin(c, s) /\ PageStep
  \/ \E l \in OptionalOf(ClientLanguages) :
       client.hasSession /\ ClientCodeUpdate(l) /\ PageStep
  \/ \E o \in ReceivedOutputs :
       /\ MayRun /\ client.hasSession
       /\ ClientExecutionResult(o, o.bugsFixed = o.totalTests) /\ PageStep
  \/ \E c \in CandidateSockets : PageSocketEffect(c) /\ PageStep
  \/ \E s \in DOMAIN sessions : SubmitButton(s) /\ PageStep
  \/ \E c \in CandidateSockets : PageDeliver(c) /\ PageStep

SpecClient == Init /\ [][NextClient]_vars

\* the countdown of the candidate's page against the server (C33..C36): the
\* page's socket is CandidateSockets, the other socket is an earlier page
\* of the same candidate, which reported its timer before it was reloaded
CountdownOutputs ==
  { WithIcons(RenderOutput(analyzeDebugFixes(code, "selenium-senior"),
                           "selenium-senior"),
              ClientPassIcon, ClientFailIcon) :
      code \in {SeniorSevenCode, SeniorFixedCode} }
EarlierReports ==
  { [isInstructionPhase |-> TRUE, instructionTimeRemaining |-> 2,
     codingTimeRemaining |-> CodingDuration],
    [isInstructionPhase |-> FALSE, instructionTimeRemaining |-> 0,
     codingTimeRemaining |-> 2] }
CountdownLanguages == {"selenium-waits"}
\* the variant changes in the last seconds of the coding phase
InChangeWindow ==
  /\ ~client.isInstructionPhase
  /\ client.timeRemaining <= VariantChangeWindow
NextCountdown ==
  \/ \E c \in Sockets : Connect(c) /\ UNCHANGED <<history, client>>
  \/ \E c \in Sockets, n \in CandidateNames, p \in ProblemTitles :
       MayCreate /\ CreateSession(c, n, p) /\ UNCHANGED <<history, client>>
  \/ \E c \in Sockets \ CandidateSockets, s \in DOMAIN sessions,
        p \in EarlierReports :
       /\ ~client.joined /\ ~client.hasSession
       /\ TimerUpdate(c, s, p) /\ UNCHANGED <<history, client>>
  \/ \E c \in CandidateSockets, s \in DOMAIN sessions :
       PageJoin(c, s) /\ UNCHANGED history
  \/ \E s \in DOMAIN sessions : PageTick(s) /\ UNCHANGED history
  \/ \E c \in CandidateSockets : PageDeliver(c) /\ UNCHANGED history
  \/ \E o \in CountdownOutputs :
       /\ MayRun /\ client.hasSession /\ Rendered(client)
       /\ ClientExecutionResult(o, o.bugsFixed = o.totalTests)
       /\ UNCHANGED history
  \/ \E s \in DOMAIN sessions :
       client.hasSession /\ SubmitButton(s) /\ UNCHANGED history
  \/ \E l \in CountdownLanguages :
       /\ MayRun /\ client.hasSession /\ Rendered(client)
       /\ InChangeWindow
       /\ ClientCodeUpdate(Some(l)) /\ UNCHANGED history
  \/ \E c \in CandidateSockets : PageSocketEffect(c) /\ UNCHANGED history

SpecCountdown == Init /\ [][NextCountdown]_vars

\* the steps the page takes by itself: its socket connects, joins, the
\* interval fires every second, the socket effect follows a render, and
\* what a socket emitted is handled by the server
PageConnects == \E c \in CandidateSockets : Connect(c) /\ UNCHANGED <<history, client>>
PageJoins ==
  \E c \in CandidateSockets, s \in DOMAIN sessions :
    PageJoin(c, s) /\ UNCHANGED history
PageTicks == \E s \in DOMAIN sessions : PageTick(s) /\ UNCHANGED history
PageDelivers == \E c \in CandidateSockets : PageDeliver(c) /\ UNCHANGED history
PageSocketEffects ==
  \E c \in CandidateSockets : PageSocketEffect(c) /\ UNCHANGED history
\* the countdown with a page that stays connected, an interval that keeps
\* firing and messages that keep being handled
SpecCountdownFair ==
  /\ SpecCountdown
  /\ SF_vars(PageConnects)
  /\ SF_vars(PageJoins)
  /\ SF_vars(PageTicks)
  /\ SF_vars(PageDelivers)
  /\ SF_vars(PageSocketEffects)

----------------------------------------------------------------------------
(* Properties *)

\* the step just taken handled event ev addressed to session id
Handled(l, ev, id) == l.ev = ev /\ l.sid = id

StatusRank(status) ==
  CASE status = "waiting" -> 0
    [] status = "active" -> 1
    [] status = "completed" -> 2

\* C1: under every handler, a session stays in the store and its status
\* never moves backwards in the order waiting < active < completed.
C1_StatusMonotonic ==
  [][\A id \in DOMAIN sessions :
       /\ id \in DOMAIN sessions'
       /\ StatusRank(sessions[id].status) <= StatusRank(sessions'[id].status)]_vars

\* a completed session has just been addressed by a join-session and by
\* nothing that re-activated it
C1_Witness ==
  \E id \in DOMAIN sessions :
    /\ sessions[id].status = "completed"
    /\ Handled(last, "join-session", id)
    /\ IsDefined(sessions[id].lastTimerUpdate)

\* C2: join-session on a completed session emits exactly one message,
\* session-expired, to the caller; the stored session (status, timer
\* snapshot, stamp) is unchanged; no session-data, no sessions-list.
C2_JoinCompletedExpires ==
  [][\A id \in DOMAIN sessions :
       (Handled(last', "join-session", id) /\ sessions[id].status = "completed")
       => /\ Cardinality(out') = 1
          /\ \A m \in out' : m.ev = "session-expired" /\ m.to = last'.from
          /\ sessions' = sessions
          /\ rooms' = rooms]_vars

\* the caller of a join on a completed session got session-expired while
\* another client was connected and got nothing
C2_Witness ==
  /\ last.ev = "join-session"
  /\ last.sid \in DOMAIN sessions
  /\ sessions[last.sid].status = "completed"
  /\ Receivers(Emitted(out, "session-expired")) = {last.from}
  /\ connected # {last.from}

\* C3 (as claimed): a code-change addressed to a completed session leaves
\* its stored code and variant unchanged and broadcasts no code-update.
C3_CodeChangeAfterCompleted ==
  [][\A id \in DOMAIN sessions :
       (Handled(last', "code-change", id) /\ sessions[id].status = "completed")
       => /\ sessions'[id].code = sessions[id].code
          /\ sessions'[id].language = sessions[id].language
          /\ Emitted(out', "code-update") = {}]_vars

\* C4 (as claimed): timer-update and language-change addressed to a
\* completed session leave the stored timer snapshot and variant unchanged
\* and broadcast no timer-update or language-update.
C4_TimerAndLanguageAfterCompleted ==
  [][\A id \in DOMAIN sessions :
       ((Handled(last', "timer-update", id) \/ Handled(last', "language-change", id))
        /\ sessions[id].status = "completed")
       => /\ sessions'[id] = sessions[id]
          /\ Emitted(out', "timer-update") = {}
          /\ Emitted(out', "language-update") = {}]_vars

\* C5: a code-change or language-change for an existing session is
\* delivered, as code-update or language-update, to exactly the connected
\* sockets other than the sender, and nothing is delivered to the sender.
C5_SenderExcluded ==
  [][\A id \in DOMAIN sessions :
       /\ Handled(last', "code-change", id)
          => Receivers({m \in Emitted(out', "code-update") : m.sid = id})
               = connected \ {last'.from}
       /\ Handled(last', "language-change", id)
          => Receivers({m \in Emitted(out', "language-update") : m.sid = id})
               = connected \ {last'.from}
       /\ (Handled(last', "code-change", id) \/ Handled(last', "language-change", id))
          => last'.from \notin Receivers(out')]_vars

\* a code-change of an existing session reached the other connected socket
C5_Witness ==
  /\ last.ev = "code-change"
  /\ last.sid \in DOMAIN sessions
  /\ Cardinality(connected) >= 2
  /\ Receivers(Emitted(out, "code-update")) = connected \ {last.from}
  /\ sessions[last.sid].code = last.payload.code

\* a session was created before position i of the logged run
CreatedBefore(id, i) ==
  \E k \in 1..(i - 1) : Handled(history[k], "create-session", id)
\* the positions of the code-change events handled for an existing session
CodeChangesOf(id) ==
  {i \in 1..Len(history) :
     Handled(history[i], "code-change", id) /\ CreatedBefore(id, i)}
LastOf(S) == CHOOSE i \in S : \A j \in S : j <= i

\* C6: in every logged run the stored code of a session is the payload of
\* the code-change processed last for it, whichever socket sent it and in
\* whichever order the events were processed; the stored code is always the
\* starter text or one whole payload.
C6_LastWriterWins ==
  \A id \in DOMAIN sessions :
    /\ CodeChangesOf(id) # {}
       => sessions[id].code = history[LastOf(CodeChangesOf(id))].payload.code
    /\ CodeChangesOf(id) = {} => sessions[id].code = defaultCode
    /\ sessions[id].code \in Codes \cup {defaultCode}

\* two sockets sent different code for the same session, one after the
\* other, and the store holds the second
C6_Witness ==
  \E id \in DOMAIN sessions : \E i, j \in CodeChangesOf(id) :
    /\ i < j
    /\ j = Len(history)
    /\ history[i].from # history[j].from
    /\ history[i].payload.code # history[j].payload.code
    /\ sessions[id].code = history[j].payload.code

----------------------------------------------------------------------------
(* Properties of the timer reconciliation (SpecTimer) *)

\* whole seconds between the stamp of a stored session and time t
WholeSecondsSince(session, t) == (t - session.lastTimerUpdate[1]) \div 1000
FlooredAtZero(n) == IF n < 0 THEN 0 ELSE n
\* the remaining time of the phase the flag of `flagged` selects, read
\* from the timer fields of `session`
LiveOf(flagged, session) ==
  IF flagged.isInstructionPhase[1] THEN session.instructionTimeRemaining
  ELSE session.codingTimeRemaining
\* and the remaining time of the other phase
IdleOf(flagged, session) ==
  IF flagged.isInstructionPhase[1] THEN session.codingTimeRemaining
  ELSE session.instructionTimeRemaining
\* a stored remaining time, or the initial duration while it is unset
RemainingOr(x, d) == IF x = << >> THEN d ELSE x[1]
\* the sessions reported for id by the session-data and sessions-list
\* messages among o
ReportedFor(o, id) ==
  {m.data : m \in {x \in Emitted(o, "session-data") : x.sid = id}}
  \cup {m.data.list[id] : m \in Emitted(o, "sessions-list")}
Reconciles(l, id) ==
  Handled(l, "join-session", id) \/ l.ev = "get-sessions"
NonNegative(x) == x = << >> \/ x[1] >= 0

\* C7: when a session whose phase flag is set and whose live remaining time
\* r was stamped e whole seconds ago is reconciled by join-session or
\* get-sessions, every live remaining time reported for it is max(0, r - e),
\* and so is the one join-session stores; no stored or reported remaining
\* time is negative.
C7_ReconciledRemaining ==
  [][\A id \in DOMAIN sessions :
       LET session == sessions[id] IN
       /\ (/\ Reconciles(last', id)
           /\ session.status # "completed"
           /\ IsDefined(session.lastTimerUpdate)
           /\ IsDefined(session.isInstructionPhase))
          => LET expected ==
                   << FlooredAtZero(LiveOf(session, session)[1]
                                    - WholeSecondsSince(session, now)) >>
             IN /\ ReportedFor(out', id) # {}
                /\ \A r \in ReportedFor(out', id) : LiveOf(session, r) = expected
                /\ Handled(last', "join-session", id)
                   => LiveOf(session, sessions'[id]) = expected
       /\ \A r \in ReportedFor(out', id) \cup {sessions'[id]} :
            /\ NonNegative(r.instructionTimeRemaining)
            /\ NonNegative(r.codingTimeRemaining)]_vars

\* a join 47 s after a coding-phase snapshot of 120 s reported 73 s
C7_Witness ==
  \E m \in Emitted(out, "session-data") :
    /\ Handled(last, "join-session", m.sid)
    /\ m.data.isInstructionPhase = <<FALSE>>
    /\ m.data.codingTimeRemaining = <<73>>
    /\ sessions[m.sid].codingTimeRemaining = <<73>>

\* the stamp is unset, or less than a whole second old at time t
NothingElapsed(session, t) ==
  ~IsDefined(session.lastTimerUpdate) \/ WholeSecondsSince(session, t) = 0

\* C8: reconciling a session that has no stamp, or whose stamp is less than
\* one whole second old, changes nothing: get-sessions lists the stored
\* session as it is, and join-session reports and stores exactly the stored
\* instruction and coding times (the initial 60 and 900 while unset).
C8_ZeroElapsedIsIdentity ==
  [][\A id \in DOMAIN sessions :
       LET session == sessions[id] IN
       (NothingElapsed(session, now) /\ session.status # "completed")
       => /\ last'.ev = "get-sessions"
             => /\ ReportedFor(out', id) = {session}
                /\ sessions'[id] = session
          /\ Handled(last', "join-session", id)
             => \A r \in ReportedFor(out', id) \cup {sessions'[id]} :
                  /\ r.instructionTimeRemaining
                       = << RemainingOr(session.instructionTimeRemaining,
                                        DefaultInstructionTime) >>
                  /\ r.codingTimeRemaining
                       = << RemainingOr(session.codingTimeRemaining,
                                        DefaultCodingTime) >>]_vars

\* get-sessions listed, unchanged, a coding snapshot stamped 600 ms earlier
C8_Witness ==
  \E id \in DOMAIN sessions :
    /\ last.ev = "get-sessions"
    /\ IsDefined(sessions[id].lastTimerUpdate)
    /\ now - sessions[id].lastTimerUpdate[1] = 600
    /\ sessions[id].codingTimeRemaining = <<120>>
    /\ ReportedFor(out, id) = {sessions[id]}

\* C9: reconciliation by join-session or get-sessions never changes the
\* stored phase flag; when the flag is set, the remaining time of the other
\* phase is reported and stored as it was, and the flag is reported as
\* stored, also when the live remaining time reaches 0.
C9_OnlyLiveFieldAdjusted ==
  [][\A id \in DOMAIN sessions :
       LET session == sessions[id] IN
       (Reconciles(last', id) /\ session.status # "completed")
       => /\ sessions'[id].isInstructionPhase = session.isInstructionPhase
          /\ IsDefined(session.isInstructionPhase)
             => \A r \in ReportedFor(out', id) \cup {sessions'[id]} :
                  /\ IdleOf(session, r) = IdleOf(session, session)
                  /\ r.isInstructionPhase = session.isInstructionPhase]_vars

\* a join in the instruction phase brought the instruction time to 0 and
\* left the flag and the coding time alone
C9_Witness ==
  \E id \in DOMAIN sessions :
    /\ Handled(last, "join-session", id)
    /\ sessions[id].isInstructionPhase = <<TRUE>>
    /\ sessions[id].instructionTimeRemaining = <<0>>
    /\ sessions[id].codingTimeRemaining = <<900>>

\* C10 (as claimed): until its first timer-update (phase flag still unset)
\* a session keeps its 900 s of coding time: stored, in every session-data
\* and in every sessions-list.
C10_CodingTimeKeptBeforeFirstUpdate ==
  \A id \in DOMAIN sessions :
    ~IsDefined(sessions[id].isInstructionPhase)
    => \A r \in ReportedFor(out, id) \cup {sessions[id]} :
         RemainingOr(r.codingTimeRemaining, DefaultCodingTime)
           = DefaultCodingTime

----------------------------------------------------------------------------
(* Drift of the timer across rejoins (SpecDrift) *)

\* the positions of the events of one name handled for session id
EventsOf(ev, id) == {i \in 1..Len(history) : Handled(history[i], ev, id)}
\* the milliseconds by which the clock advanced between positions i and j
RECURSIVE ClockBetween(_, _)
ClockBetween(i, j) ==
  IF i > j THEN 0
  ELSE (IF history[i].ev = "clock" THEN history[i].payload.ms ELSE 0)
       + ClockBetween(i + 1, j)
\* the live remaining time a timer-update payload carries
LiveOfPayload(p) ==
  IF p.isInstructionPhase THEN p.instructionTimeRemaining
  ELSE p.codingTimeRemaining

\* C11 (as claimed): after the last timer-update of a session, however many
\* join-session events follow and however close together, the live remaining
\* time stored by the last join is no more generous than one reconciliation
\* over the whole interval, max(0, r - whole seconds elapsed), and the total
\* reduction is at most one second short of the whole seconds elapsed.
C11_NoDriftAcrossRejoins ==
  \A id \in DOMAIN sessions :
    LET updates == EventsOf("timer-update", id)
        joins == EventsOf("join-session", id)
    IN (/\ IsDefined(sessions[id].isInstructionPhase)
        /\ updates # {} /\ joins # {}
        /\ LastOf(joins) > LastOf(updates))
       => LET r == LiveOfPayload(history[LastOf(updates)].payload)
              wall == ClockBetween(LastOf(updates), LastOf(joins)) \div MsPerSecond
              stored == LiveOf(sessions[id], sessions[id])[1]
          IN /\ stored <= FlooredAtZero(r - wall)
             /\ stored = 0 \/ r - stored >= wall - 1

----------------------------------------------------------------------------
(* Properties of grading and of execute-code (SpecGrade) *)

\* the step just taken handled an execute-code whose payload carries code
Graded(l) == l.ev = "execute-code" /\ IsDefined(l.payload.code)
\* the execution-result and execution-update messages among o
ExecutionMessages(o) ==
  Emitted(o, "execution-result") \cup Emitted(o, "execution-update")
\* the pass flags of the outcomes a rendered output lists, in order
PassFlags(output) == [i \in DOMAIN output.tests |-> output.tests[i].passed]
AllPassed(output) == \A i \in DOMAIN output.tests : output.tests[i].passed

\* C13 (as claimed): the score rendered in the test summary of an
\* execute-code never exceeds the maximum of 10, for any variant and text.
C13_RenderedScoreWithinMaximum ==
  Graded(last)
  => \A m \in ExecutionMessages(out) : m.data.output.score <= ScoreMaximum

\* C15 (as claimed): for every configured variant, a text that passes all of
\* the variant's rules is scored exactly the maximum of 10 points.
C15_CleanSweepScoresMaximum ==
  (Graded(last) /\ last.payload.language \in ConfiguredLanguages)
  => \A m \in Emitted(out, "execution-result") :
       AllPassed(m.data.output) => m.data.output.score = ScoreMaximum

\* rule 1's pattern is in the text, and the wait calls rules 2 and 3 of
\* selenium-pageobject require are not
FirstRuleOnly(code) ==
  /\ <<"", "wait = new WebDriverWait">> \in code
  /\ <<"login", "wait.until">> \notin code
  /\ <<"getErrorMessage", "wait.until">> \notin code

\* C16: execute-code for selenium-pageobject on a text holding rule 1's
\* pattern and not those rules 2 and 3 require lists three outcomes, pass,
\* fail, fail in that order, and a score of one point (the value of one bug).
C16_PageObjectFirstRuleOnly ==
  (/\ Graded(last)
   /\ last.payload.language = "selenium-pageobject"
   /\ FirstRuleOnly(last.payload.code[1]))
  => /\ Emitted(out, "execution-result") # {}
     /\ \A m \in Emitted(out, "execution-result") :
          /\ PassFlags(m.data.output) = <<TRUE, FALSE, FALSE>>
          /\ m.data.output.bugsFixed = 1
          /\ m.data.output.score = 1
          /\ ~m.data.success

\* the partially fixed page object was graded pass, fail, fail
C16_Witness ==
  /\ Graded(last)
  /\ last.payload.language = "selenium-pageobject"
  /\ last.payload.code[1] = PartialCode
  /\ \E m \in Emitted(out, "execution-result") :
       PassFlags(m.data.output) = <<TRUE, FALSE, FALSE>> /\ m.data.output.score = 1

\* the fields of a session that grading has no business with
Ungraded(session) ==
  [status |-> session.status, code |-> session.code,
   language |-> session.language,
   isInstructionPhase |-> session.isInstructionPhase,
   instructionTimeRemaining |-> session.instructionTimeRemaining,
   codingTimeRemaining |-> session.codingTimeRemaining,
   lastTimerUpdate |-> session.lastTimerUpdate]

\* C18: execute-code for a variant without configured rules answers the
\* caller with one execution-result listing exactly one outcome, not passed,
\* with success = false, and leaves every session's status, code, variant
\* and timer as they were.
C18_UnknownVariantDegrades ==
  [][(Graded(last') /\ last'.payload.language \notin ConfiguredLanguages)
     => /\ Cardinality(Emitted(out', "execution-result")) = 1
        /\ \A m \in Emitted(out', "execution-result") :
             /\ m.to = last'.from
             /\ PassFlags(m.data.output) = <<FALSE>>
             /\ ~m.data.success
        /\ DOMAIN sessions' = DOMAIN sessions
        /\ \A id \in DOMAIN sessions :
             Ungraded(sessions'[id]) = Ungraded(sessions[id])]_vars

\* an active session was graded for a variant without rules and stays active
C18_Witness ==
  /\ Graded(last)
  /\ last.payload.language = "python"
  /\ last.sid \in DOMAIN sessions
  /\ sessions[last.sid].status = "active"
  /\ IsDefined(sessions[last.sid].output)
  /\ \E m \in Emitted(out, "execution-result") :
       PassFlags(m.data.output) = <<FALSE>> /\ ~m.data.success

\* C19: an execute-code whose payload carries no code is answered with one
\* execution-result, success = false, to the caller, and an execution-update,
\* success = false, to every connected socket; the session store is unchanged.
C19_FaultIsCaught ==
  [][(last'.ev = "execute-code" /\ ~IsDefined(last'.payload.code))
     => /\ Cardinality(Emitted(out', "execution-result")) = 1
        /\ \A m \in ExecutionMessages(out') : ~m.data.success
        /\ Receivers(Emitted(out', "execution-result")) = {last'.from}
        /\ Receivers(Emitted(out', "execution-update")) = connected
        /\ sessions' = sessions]_vars

\* a payload without code was answered while another client was connected
C19_Witness ==
  /\ last.ev = "execute-code"
  /\ ~IsDefined(last.payload.code)
  /\ last.sid \in DOMAIN sessions
  /\ Cardinality(connected) >= 2
  /\ Receivers(Emitted(out, "execution-update")) = connected
  /\ \A m \in ExecutionMessages(out) : ~m.data.success

\* what C20 says of one execute-code step for the existing session id
SameResultToAll(id) ==
  /\ Cardinality(Emitted(out', "execution-result")) = 1
  /\ Receivers(Emitted(out', "execution-result")) = {last'.from}
  /\ Receivers(Emitted(out', "execution-update")) = connected
  /\ \A m, n \in ExecutionMessages(out') :
       m.data.output = n.data.output /\ m.data.success = n.data.success
  /\ \A m \in ExecutionMessages(out') :
       /\ m.sid = id
       /\ sessions'[id].output = Some(m.data.output)

----------------------------------------------------------------------------
(* Determinism of grading (SpecReplay) *)

----------------------------------------------------------------------------
(* Properties of the page's score (SpecClient) *)

\* the step just taken was a test-submitted sent by the page
Submitted(l) == l.ev = "test-submitted" /\ "bugsPassed" \in DOMAIN l.payload

\* C12: the score the page sends with test-submitted is between 0 and 10,
\* whatever the number of variants graded and of outcomes passed, and the
\* percentage is score / 10 x 100 (a whole number here), within 0..100.
C12_ClientScoreWithinMaximum ==
  Submitted(last)
  => /\ last.payload.score >= 0 /\ last.payload.score <= 10
     /\ last.payload.percentage * 10 = last.payload.score * 100
     /\ last.payload.percentage >= 0 /\ last.payload.percentage <= 100
     /\ \A m \in Emitted(out, "candidate-test-results") :
          m.data.score = last.payload.score

\* 17 bugs passed under two variants, and the page submitted 10 and 100 %
C12_Witness ==
  /\ Submitted(last)
  /\ last.payload.bugsPassed = 17
  /\ last.payload.score = 10
  /\ last.payload.percentage = 100

\* the pass flags of the outcomes the page holds for one variant
FlagsOf(cl, k) == [i \in DOMAIN cl.bugResults[k] |-> cl.bugResults[k][i].passed]
\* page state `after` holds the outcomes of `before` but for one outcome of
\* one variant, which went from fail to pass
OneFlip(before, after) ==
  /\ DOMAIN before.bugResults = DOMAIN after.bugResults
  /\ \E k \in DOMAIN before.bugResults :
       /\ \A x \in DOMAIN before.bugResults \ {k} :
            FlagsOf(before, x) = FlagsOf(after, x)
       /\ DOMAIN FlagsOf(before, k) = DOMAIN FlagsOf(after, k)
       /\ \E i \in DOMAIN FlagsOf(before, k) :
            /\ ~FlagsOf(before, k)[i] /\ FlagsOf(after, k)[i]
            /\ \A j \in DOMAIN FlagsOf(before, k) \ {i} :
                 FlagsOf(before, k)[j] = FlagsOf(after, k)[j]

\* C14: when an execution-result flips one outcome from fail to pass and
\* leaves every other outcome and variant as it was, the score and the
\* percentage the page would submit do not decrease.
C14_ScoreMonotone ==
  (history # << >> /\ OneFlip(history[1], client))
  => /\ calculateScore(client).score >= calculateScore(history[1]).score
     /\ calculateScore(client).percentage
          >= calculateScore(history[1]).percentage

\* one more bug fixed took the score from 7 to 8
C14_Witness ==
  /\ history # << >>
  /\ OneFlip(history[1], client)
  /\ calculateScore(history[1]).score = 7
  /\ calculateScore(client).score = 8
  /\ calculateScore(client).percentage = 80

----------------------------------------------------------------------------
(* Requests addressed to an absent session (Spec) *)

\* C21: join-session with an id absent from the store emits exactly one
\* message, session-not-found, to the caller only (no session-expired, no
\* session-data, no sessions-list); it creates no session, changes no stored
\* session and joins no room.
C21_JoinAbsentNotFound ==
  [][\A id \in SessionIds :
       (Handled(last', "join-session", id) /\ id \notin DOMAIN sessions)
       => /\ Cardinality(out') = 1
          /\ \A m \in out' : m.ev = "session-not-found" /\ m.to = last'.from
          /\ Emitted(out', "session-expired") = {}
          /\ Emitted(out', "session-data") = {}
          /\ Emitted(out', "sessions-list") = {}
          /\ sessions' = sessions
          /\ rooms' = rooms]_vars

\* the caller of a join on an absent id got session-not-found while a
\* session was stored and another client was connected and got nothing
C21_Witness ==
  /\ last.ev = "join-session"
  /\ last.sid \notin DOMAIN sessions
  /\ DOMAIN sessions # {}
  /\ Receivers(Emitted(out, "session-not-found")) = {last.from}
  /\ connected \ {last.from} # {}

\* the three events that edit a session in place
Edits(l, id) ==
  \/ Handled(l, "code-change", id)
  \/ Handled(l, "language-change", id)
  \/ Handled(l, "timer-update", id)

\* C22: code-change, language-change and timer-update addressed to an id
\* absent from the store are silent no-ops: nothing is emitted (no
\* code-update, language-update or timer-update), no session is created and
\* no stored session changes.
C22_EditAbsentIsNoOp ==
  [][\A id \in SessionIds :
       (Edits(last', id) /\ id \notin DOMAIN sessions)
       => /\ out' = {}
          /\ sessions' = sessions
          /\ rooms' = rooms]_vars

\* a timer-update named an absent id while a session was stored and two
\* clients were connected: nobody heard of it and the stored session kept
\* its timer snapshot unset
C22_Witness ==
  /\ last.ev = "timer-update"
  /\ last.sid \notin DOMAIN sessions
  /\ out = {}
  /\ Cardinality(connected) = 2
  /\ \E id \in DOMAIN sessions : ~IsDefined(sessions[id].lastTimerUpdate)

----------------------------------------------------------------------------
(* Joining, reporting and creating (Spec) *)

\* the names of the events among a set of emitted messages
EventNames(o) == {m.ev : m \in o}

\* C23: join-session on a stored session that is waiting or active leaves
\* it active and stamped with the current time, puts the caller in its
\* room, sends one session-data to the caller only, carrying the status
\* active, the stamp and the remaining times the join stored (for a set
\* phase flag and stamp: the live one reduced by the whole seconds elapsed,
\* floored at 0), and sends every connected client a sessions-list that
\* shows the session as stored; nothing else is emitted.
C23_JoinActivates ==
  [][\A id \in DOMAIN sessions :
       LET session == sessions[id] IN
       (/\ Handled(last', "join-session", id)
        /\ session.status \in {"waiting", "active"})
       => LET after == sessions'[id] IN
          /\ after.status = "active"
          /\ after.lastTimerUpdate = << now >>
          /\ id \in rooms'[last'.from]
          /\ EventNames(out') = {"session-data", "sessions-list"}
          /\ Receivers(Emitted(out', "session-data")) = {last'.from}
          /\ Cardinality(Emitted(out', "session-data")) = 1
          /\ \A m \in Emitted(out', "session-data") :
               /\ m.sid = id
               /\ m.data.status = "active"
               /\ m.data.lastTimerUpdate = << now >>
               /\ m.data.instructionTimeRemaining
                    = after.instructionTimeRemaining
               /\ m.data.codingTimeRemaining = after.codingTimeRemaining
               /\ (IsDefined(session.lastTimerUpdate)
                   /\ IsDefined(session.isInstructionPhase))
                  => LiveOf(session, m.data)
                       = << FlooredAtZero(LiveOf(session, session)[1]
                                          - WholeSecondsSince(session, now)) >>
          /\ Receivers(Emitted(out', "sessions-list")) = connected
          /\ \A m \in Emitted(out', "sessions-list") :
               m.data.list[id] = after]_vars

\* a second client joined a session that another client had joined before:
\* it stayed active, the caller alone got session-data with 73 s of the
\* 120 s reported 47 s earlier, and both clients got the sessions-list
C23_Witness ==
  \E m \in Emitted(out, "session-data") :
    /\ Handled(last, "join-session", m.sid)
    /\ sessions[m.sid].status = "active"
    /\ \E d \in connected \ {last.from} : m.sid \in rooms[d]
    /\ m.data.codingTimeRemaining = <<73>>
    /\ sessions[m.sid].lastTimerUpdate = << now >>
    /\ Receivers(Emitted(out, "session-data")) = {last.from}
    /\ Cardinality(Receivers(Emitted(out, "sessions-list"))) = 2

----------------------------------------------------------------------------
(* The frame of timer-update (SpecTimer) *)

\* the timer fields of a stored or reported session
TimerOf(session) ==
  [isInstructionPhase |-> session.isInstructionPhase,
   instructionTimeRemaining |-> session.instructionTimeRemaining,
   codingTimeRemaining |-> session.codingTimeRemaining]
\* the timer fields a timer-update payload asks for
TimerOfPayload(payload) ==
  [isInstructionPhase |-> << payload.isInstructionPhase >>,
   instructionTimeRemaining |-> << payload.instructionTimeRemaining >>,
   codingTimeRemaining |-> << payload.codingTimeRemaining >>]
\* the session with its timer fields and stamp blanked
LessTimer(session) ==
  [session EXCEPT !.isInstructionPhase = Undefined,
                  !.instructionTimeRemaining = Undefined,
                  !.codingTimeRemaining = Undefined,
                  !.lastTimerUpdate = Undefined]

\* C24: timer-update on a stored session that is not completed overwrites
\* the phase flag and both remaining times with the payload and stamps the
\* session with the current time, so that reconciling it at the same
\* instant, as get-sessions or as join-session does, returns exactly the
\* payload's values; every other field (code, variant, status among them)
\* is as before.
C24_TimerUpdateOverwrites ==
  [][\A id \in DOMAIN sessions :
       (/\ Handled(last', "timer-update", id)
        /\ sessions[id].status # "completed")
       => LET after == sessions'[id]
              payload == last'.payload
          IN /\ TimerOf(after) = TimerOfPayload(payload)
             /\ after.lastTimerUpdate = << now >>
             /\ TimerOf(getSessionWithAdjustedTimer(after, now'))
                  = TimerOfPayload(payload)
             /\ TimerOf(SessionData(JoinedSession(after, now')))
                  = TimerOfPayload(payload)
             /\ LessTimer(after) = LessTimer(sessions[id])]_vars

\* after the clock advanced, a timer-update left an active session in the
\* coding phase with the payload's 120 s, stamped with the current time
C24_Witness ==
  \E id \in DOMAIN sessions :
    /\ Handled(last, "timer-update", id)
    /\ sessions[id].status = "active"
    /\ last.payload.isInstructionPhase = FALSE
    /\ TimerOf(sessions[id]) = TimerOfPayload(last.payload)
    /\ sessions[id].codingTimeRemaining = <<120>>
    /\ sessions[id].lastTimerUpdate = << now >>
    /\ now > StartTime

----------------------------------------------------------------------------
(* Creating sessions (SpecRegistry) *)

\* C25: create-session adds exactly one session to the store, under an id
\* no stored session had, with status waiting, the candidate's name, the
\* starter code and the current time as creation time; every session
\* stored before is unchanged; the new session, and nothing else, is sent
\* as session-created to every connected client, the creator included.
C25_CreateAddsOne ==
  [][last'.ev = "create-session"
     => \E id \in DOMAIN sessions' \ DOMAIN sessions :
          /\ DOMAIN sessions' = DOMAIN sessions \cup {id}
          /\ \A k \in DOMAIN sessions : sessions'[k] = sessions[k]
          /\ sessions'[id].id = id
          /\ sessions'[id].status = "waiting"
          /\ sessions'[id].candidateName = last'.payload.candidateName
          /\ sessions'[id].code = defaultCode
          /\ sessions'[id].createdAt = now
          /\ EventNames(out') = {"session-created"}
          /\ Receivers(out') = connected
          /\ last'.from \in Receivers(out')
          /\ \A m \in out' : m.data = sessions'[id]]_vars

\* a second session was created, waiting, next to a completed one, and
\* both connected clients were told
C25_Witness ==
  /\ last.ev = "create-session"
  /\ Cardinality(DOMAIN sessions) = 2
  /\ sessions[last.sid].status = "waiting"
  /\ \E k \in DOMAIN sessions \ {last.sid} :
       /\ sessions[k].status = "completed"
       /\ sessions[k].createdAt < sessions[last.sid].createdAt
  /\ Cardinality(Receivers(Emitted(out, "session-created"))) = 2

----------------------------------------------------------------------------
(* Listing the sessions (Spec) *)

\* a session with its two remaining times blanked
LessRemaining(session) ==
  [session EXCEPT !.instructionTimeRemaining = Undefined,
                  !.codingTimeRemaining = Undefined]

\* C26: get-sessions emits one sessions-list, to the caller only, listing
\* every stored session with its fields as stored except that, where the
\* stamp and the phase flag are set, the live remaining time is reduced by
\* the whole seconds elapsed (floored at 0); the store is left as it was:
\* remaining times, phase flag, stamp and status are the same before and
\* after.
C26_GetSessionsReadsOnly ==
  [][last'.ev = "get-sessions"
     => /\ sessions' = sessions
        /\ rooms' = rooms
        /\ EventNames(out') = {"sessions-list"}
        /\ Receivers(out') = {last'.from}
        /\ \A m \in out' :
             /\ DOMAIN m.data.list = DOMAIN sessions
             /\ \A id \in DOMAIN sessions :
                  LET session == sessions[id]
                      r == m.data.list[id]
                  IN /\ LessRemaining(r) = LessRemaining(session)
                     /\ (IsDefined(session.lastTimerUpdate)
                         /\ IsDefined(session.isInstructionPhase))
                        => /\ LiveOf(session, r)
                                = << FlooredAtZero(
                                       LiveOf(session, session)[1]
                                       - WholeSecondsSince(session, now)) >>
                           /\ IdleOf(session, r) = IdleOf(session, session)
                     /\ ~IsDefined(session.lastTimerUpdate)
                        => r = session]_vars

\* get-sessions told its caller, and not the other connected client, of
\* 73 s of coding time for a session that is stored with 120 s
C26_Witness ==
  /\ last.ev = "get-sessions"
  /\ Receivers(Emitted(out, "sessions-list")) = {last.from}
  /\ connected \ {last.from} # {}
  /\ \E m \in out, id \in DOMAIN sessions :
       /\ m.data.list[id].codingTimeRemaining = <<73>>
       /\ sessions[id].codingTimeRemaining = <<120>>

----------------------------------------------------------------------------
(* Submitting by the button and by the timer (SpecRegistry) *)

\* the results as the other kind of submission would have sent them
OtherKind(results) == [results EXCEPT !.isAutoSubmit = ~@]
\* the store after a test-submitted for id carrying results
StoreAfterSubmit(store, id, results) ==
  IF id \in DOMAIN store
  THEN [store EXCEPT ![id] = SubmittedSession(@, results)]
  ELSE store

\* C27: a test-submitted has the same effect on the store and the same
\* audience whether its isAutoSubmit is true or false: the store after it
\* is the store the submission of the other kind would have left, with the
\* addressed session completed and every other field and session as
\* before; one candidate-test-results goes to every connected client and
\* carries the payload as received, the flag included.
C27_AutoSubmitSameEffect ==
  [][\A id \in SessionIds :
       Handled(last', "test-submitted", id)
       => LET results == last'.payload IN
          /\ sessions' = StoreAfterSubmit(sessions, id, OtherKind(results))
          /\ DOMAIN sessions' = DOMAIN sessions
          /\ \A k \in DOMAIN sessions :
               sessions'[k] = IF k = id
                              THEN [sessions[k] EXCEPT !.status = "completed"]
                              ELSE sessions[k]
          /\ rooms' = rooms
          /\ EventNames(out') = {"candidate-test-results"}
          /\ Receivers(out') = connected
          /\ \A m \in out' : m.sid = id /\ m.data = results]_vars

\* the timer submitted an active session: it is completed, a second
\* session is untouched, and both clients got the results with the flag
C27_Witness ==
  \E id \in DOMAIN sessions :
    /\ Handled(last, "test-submitted", id)
    /\ last.payload.isAutoSubmit
    /\ sessions[id].status = "completed"
    /\ IsDefined(sessions[id].lastTimerUpdate)
    /\ \E k \in DOMAIN sessions \ {id} : sessions[k].status = "waiting"
    /\ Cardinality(Receivers(out)) = 2
    /\ \A m \in out : m.data.isAutoSubmit

----------------------------------------------------------------------------
(* The events sent to everyone (Spec) *)

\* the events the server sends with io.emit on behalf of one client
InclusiveEvents ==
  {"session-created", "execution-update", "candidate-test-results",
   "paste-detected", "timer-update"}
\* the event a request is announced with, where it is announced to all:
\* always for create-session and test-submitted, for a stored session
\* otherwise
Announces(l, store) ==
  CASE l.ev = "create-session" -> {"session-created"}
    [] l.ev = "test-submitted" -> {"candidate-test-results"}
    [] l.ev = "execute-code" /\ l.sid \in DOMAIN store -> {"execution-update"}
    [] l.ev = "paste-attempt" /\ l.sid \in DOMAIN store -> {"paste-detected"}
    [] l.ev = "timer-update" /\ l.sid \in DOMAIN store -> {"timer-update"}
    [] OTHER -> {}

\* C28: session-created, execution-update, candidate-test-results,
\* paste-detected and timer-update, whenever emitted, go to every connected
\* client, the originator included; they are emitted for every
\* create-session and test-submitted and for every execute-code,
\* paste-attempt and timer-update that names a stored session; and
\* paste-attempt changes no session and no room.
C28_InclusiveEventsReachAll ==
  [][/\ \A ev \in InclusiveEvents :
          Emitted(out', ev) # {}
          => /\ Receivers(Emitted(out', ev)) = connected'
             /\ last'.from \in Receivers(Emitted(out', ev))
      /\ \A e \in Announces(last', sessions') : Emitted(out', e) # {}
      /\ last'.ev = "paste-attempt"
         => /\ sessions' = sessions
            /\ rooms' = rooms
            /\ EventNames(out') \subseteq {"paste-detected"}]_vars

\* a client that never joined the session reported a paste in it: it and
\* the other connected client both got paste-detected with the candidate's
\* name
C28_Witness ==
  /\ last.ev = "paste-attempt"
  /\ last.sid \in DOMAIN sessions
  /\ last.sid \notin rooms[last.from]
  /\ Cardinality(connected) = 2
  /\ Receivers(Emitted(out, "paste-detected")) = connected
  /\ \A m \in out : m.data.candidateName = sessions[last.sid].candidateName

----------------------------------------------------------------------------
(* The life of a session (Spec) *)

\* C29: no event removes a session: an id in the store stays in the store,
\* stored under its own id, and its identifier, candidate name and creation
\* time never change, whatever handler runs and whoever disconnects.
C29_SessionsPersist ==
  [][\A id \in DOMAIN sessions :
       /\ id \in DOMAIN sessions'
       /\ sessions'[id].id = id
       /\ sessions'[id].id = sessions[id].id
       /\ sessions'[id].candidateName = sessions[id].candidateName
       /\ sessions'[id].problem = sessions[id].problem
       /\ sessions'[id].createdAt = sessions[id].createdAt]_vars

\* the last client disconnected; a session created before the clock
\* advanced, since stamped and completed, is still stored with its name and
\* creation time
C29_Witness ==
  \E id \in DOMAIN sessions :
    /\ last.ev = "disconnect"
    /\ connected = {}
    /\ sessions[id].status = "completed"
    /\ IsDefined(sessions[id].lastTimerUpdate)
    /\ sessions[id].createdAt = StartTime
    /\ now > StartTime
    /\ sessions[id].candidateName \in CandidateNames

\* C30 (as claimed): a session becomes completed only by a test-submitted
\* addressed to it while it is active; a waiting session, never joined, is
\* not completed by a test-submitted.
C30_CompletedOnlyFromActive ==
  [][\A id \in DOMAIN sessions :
       (sessions[id].status # "completed"
        /\ sessions'[id].status = "completed")
       => /\ Handled(last', "test-submitted", id)
          /\ sessions[id].status = "active"]_vars

----------------------------------------------------------------------------
(* The rules of each variant (SpecRules) *)

\* the number of rules the source lists for each configured variant
RuleCount(language) ==
  CASE language = "selenium-senior" -> 10
    [] language = "java-calculator" -> 8
    [] language = "selenium-combined" -> 11
    [] language = "selenium-pageobject" -> 3
    [] language = "selenium-waits" -> 4
    [] language = "selenium-locators" -> 4
\* the extracted method bodies rule i of a variant reads; rules that read
\* the whole text alone read none
ReadBy(language, i) ==
  CASE language = "selenium-senior" ->
         << {}, {"enterMethodCode"}, {"errorMethodCode"}, {"loadMethodCode"},
            {"clickMethodCode"}, {"dataMethodCode"}, {"notifMethodCode"},
            {"fillMethodCode"}, {"fillMethodCode"}, {"submitMethodCode"} >>[i]
    [] language = "java-calculator" -> {}
    [] language = "selenium-combined" ->
         << {}, {"login"}, {"getErrorMessage"}, {"addProductContent"},
            {"addProductContent"}, {"isProductContent"}, {"getCountContent"},
            {"fillFormContent"}, {}, {}, {} >>[i]
    [] language = "selenium-pageobject" ->
         << {}, {"login"}, {"getErrorMessage"} >>[i]
    [] language = "selenium-waits" ->
         << {"addProductContent"}, {"addProductContent"},
            {"isProductContent"}, {"getCountContent"} >>[i]
    [] language = "selenium-locators" -> << {"fillFormContent"}, {}, {}, {} >>[i]
\* the method bodies the extraction patterns look for
Regions ==
  {"enterMethodCode", "errorMethodCode", "loadMethodCode", "clickMethodCode",
   "dataMethodCode", "notifMethodCode", "fillMethodCode", "submitMethodCode",
   "login", "getErrorMessage", "addProductContent", "isProductContent",
   "getCountContent", "fillFormContent"}
\* the text in which the extraction pattern of one method does not match
Missing(code, region) == {f \in code : f[1] # region}
\* the names of the outcomes, in order
NamesOf(results) == [i \in DOMAIN results |-> results[i].name]

\* C31: for every configured variant, execute-code lists as many outcomes
\* as the variant has rules (10, 8, 11, 3, 4, 4), under the same names in
\* the same order as for the empty text; and had the extraction pattern of
\* any one method not matched, grading would still return that many
\* outcomes under those names, with the outcome of every rule that does not
\* read that method as it is.
C31_OutcomesPerVariant ==
  (Graded(last) /\ last.payload.language \in ConfiguredLanguages)
  => LET code == last.payload.code[1]
         language == last.payload.language
     IN /\ Emitted(out, "execution-result") # {}
        /\ \A m \in Emitted(out, "execution-result") :
             LET tests == m.data.output.tests IN
             /\ Len(tests) = RuleCount(language)
             /\ NamesOf(tests) = NamesOf(analyzeDebugFixes(EmptyCode, language))
             /\ \A region \in Regions :
                  LET missed == analyzeDebugFixes(Missing(code, region), language)
                  IN /\ Len(missed) = RuleCount(language)
                     /\ NamesOf(missed) = NamesOf(tests)
                     /\ \A i \in DOMAIN missed :
                          region \notin ReadBy(language, i)
                          => /\ missed[i].passed = tests[i].passed
                             /\ missed[i].message = tests[i].message

\* a fixed text was graded under selenium-combined: eleven outcomes, all
\* passed, and without the body of addProductToCart rule 5 would fail
C31_Witness ==
  /\ Graded(last)
  /\ last.payload.language = "selenium-combined"
  /\ last.payload.code[1] = CombinedFixedCode
  /\ \E m \in Emitted(out, "execution-result") :
       /\ Len(m.data.output.tests) = 11
       /\ AllPassed(m.data.output)
  /\ ~analyzeDebugFixes(Missing(CombinedFixedCode, "addProductContent"),
                        "selenium-combined")[5].passed

----------------------------------------------------------------------------
(* Re-running a variant on the page (SpecClient) *)

\* the step just taken was the page's execution-result handler, and the
\* output it received had bug lines
Regraded(l) ==
  /\ l.ev = "client execution-result"
  /\ Len(ParseBugResults(l.payload.output)) > 0

\* C32: an execution-result with bug lines replaces the outcome list of the
\* page's current variant by the outcomes parsed from it and leaves the
\* lists of the other variants alone; receiving the same result once more
\* changes neither the map nor the total nor the score and percentage the
\* page would submit, so no outcome is counted twice.
C32_RerunReplaces ==
  Regraded(last)
  => LET parsed == ParseBugResults(last.payload.output)
         before == history[1]
         again == BugResultsUpdated(client, parsed)
     IN /\ client.bugResults[client.language] = parsed
        /\ DOMAIN client.bugResults
             = DOMAIN before.bugResults \cup {client.language}
        /\ \A k \in DOMAIN before.bugResults \ {client.language} :
             client.bugResults[k] = before.bugResults[k]
        /\ again.bugResults = client.bugResults
        /\ again.totalPoints = client.totalPoints
        /\ calculateScore(again) = calculateScore(client)
        /\ Len(AllBugs(client.bugResults))
             <= Len(BugNames) * Cardinality(DOMAIN client.bugResults)

\* the page received again the result it already held for its variant,
\* seven bugs passed out of ten: nothing changed and the score is still 7
C32_Witness ==
  /\ Regraded(last)
  /\ history # << >>
  /\ client.language \in DOMAIN history[1].bugResults
  /\ history[1].bugResults[client.language]
       = ParseBugResults(last.payload.output)
  /\ client = history[1]
  /\ Len(client.bugResults[client.language]) = 10
  /\ calculateScore(client).score = 7
  /\ calculateScore(client).bugsPassed = 7


----------------------------------------------------------------------------
(* The countdown of the candidate's page (SpecCountdown) *)

\* the step is a tick of the page's interval
Ticked(l) == l.ev = "client tick"
\* a counter after one second: one less, and 0 at the least
OneSecondLess(n) == IF n <= 1 THEN 0 ELSE n - 1

\* C33: a tick happens only before submission; it takes one second off
\* exactly one counter, the instruction counter in the instruction phase
\* and the coding counter otherwise, and leaves the other as it was; no
\* counter goes below 0; the phase changes in a tick only from instruction
\* to coding, and exactly in the tick that brings the instruction counter
\* to 0.
C33_TickDecrementsOneCounter ==
  [][Ticked(last')
     => /\ ~client.isTestSubmitted
        /\ IF client.isInstructionPhase
           THEN /\ client'.instructionTimeRemaining
                     = OneSecondLess(client.instructionTimeRemaining)
                /\ client'.timeRemaining = client.timeRemaining
           ELSE /\ client'.timeRemaining
                     = OneSecondLess(client.timeRemaining)
                /\ client'.instructionTimeRemaining
                     = client.instructionTimeRemaining
        /\ client'.instructionTimeRemaining >= 0
        /\ client'.timeRemaining >= 0
        /\ (~client.isInstructionPhase => ~client'.isInstructionPhase)
        /\ (client'.isInstructionPhase # client.isInstructionPhase)
             <=> (client.isInstructionPhase
                  /\ client'.instructionTimeRemaining = 0)]_vars

\* a tick brought the instruction counter of a new session from 1 to 0 and
\* the page is in the coding phase with the whole coding time left
C33_Witness ==
  /\ Ticked(last)
  /\ ~client.isInstructionPhase
  /\ client.instructionTimeRemaining = 0
  /\ client.timeRemaining = CodingDuration
  /\ ~client.isTestSubmitted

\* the session the page joined is stored as st
SessionIs(st) == \E id \in DOMAIN sessions : sessions[id].status = st

\* C34 as stated: while the page stays connected and its interval and the
\* delivery of its messages keep going, a session the page has joined is
\* eventually completed.
C34_JoinedEventuallyCompleted ==
  (client.hasSession /\ SessionIs("active")) ~> SessionIs("completed")

\* C34, second part: once the test is submitted the interval is cleared:
\* no tick follows and the page sends no timer-update.
C34_CountdownStopsAfterSubmission ==
  [][client.isTestSubmitted
     => /\ ~Ticked(last')
        /\ \A i \in DOMAIN client'.outbox :
             client'.outbox[i].ev = "timer-update"
             => \E j \in DOMAIN client.outbox :
                  client.outbox[j] = client'.outbox[i]]_vars

\* the test-submitted messages the step put in flight
SubmissionsSent ==
  { client'.outbox[i].payload :
      i \in { j \in DOMAIN client'.outbox :
                /\ client'.outbox[j].ev = "test-submitted"
                /\ j > Len(client.outbox) } }

\* C35 as stated: the test-submitted of the tick that brings the coding
\* counter to 0 carries isAutoSubmit = true and as timeUsed the coding
\* seconds consumed, the coding time less what the counter shows; the
\* test-submitted of the Submit button carries isAutoSubmit = false.
C35_ExpiryIsAutoSubmit ==
  [][/\ Ticked(last')
          => \A r \in SubmissionsSent :
               /\ r.isAutoSubmit
               /\ r.timeUsed = CodingDuration - client'.timeRemaining
     /\ last'.ev = "client submit"
          => \A r \in SubmissionsSent : ~r.isAutoSubmit]_vars

\* the part of C35 that the page satisfies: a button submission made while
\* coding time is left carries isAutoSubmit = false and the seconds consumed
C35_ButtonIsNotAuto ==
  [][(last'.ev = "client submit" /\ client.timeRemaining > 0)
       => /\ SubmissionsSent # {}
          /\ \A r \in SubmissionsSent :
               /\ ~r.isAutoSubmit
               /\ r.timeUsed = CodingDuration - client.timeRemaining]_vars

C36_ButtonCarriesLatestResults ==
  [][last'.ev = "client submit"
       => \A r \in SubmissionsSent :
            /\ r.bugResults = client.bugResults
            /\ r.score = calculateScore(client).score
            /\ r.percentage = calculateScore(client).percentage]_vars

----------------------------------------------------------------------------
(* Two sessions side by side (SpecIsolation) *)

\* the events a client addresses to one session
SessionEvents ==
  {"join-session", "code-change", "language-change", "timer-update",
   "execute-code", "paste-attempt", "test-submitted"}
\* the code, variant, status, output and timer snapshot of a session
Snapshot(session) ==
  [code |-> session.code,
   language |-> session.language,
   status |-> session.status,
   output |-> session.output,
   isInstructionPhase |-> session.isInstructionPhase,
   instructionTimeRemaining |-> session.instructionTimeRemaining,
   codingTimeRemaining |-> session.codingTimeRemaining,
   lastTimerUpdate |-> session.lastTimerUpdate]

\* C37: an event addressed to session A (join-session, code-change,
\* language-change, timer-update, execute-code, paste-attempt,
\* test-submitted) leaves every other stored session B in the store with
\* its code, variant, status, output and timer snapshot unchanged.
C37_OtherSessionsUnchanged ==
  [][last'.ev \in SessionEvents
       => \A b \in DOMAIN sessions \ {last'.sid} :
            /\ b \in DOMAIN sessions'
            /\ Snapshot(sessions'[b]) = Snapshot(sessions[b])]_vars

\* a code-change for one session was stored while another session is
\* active with the code it was created with
C37_Witness ==
  /\ last.ev = "code-change"
  /\ last.sid \in DOMAIN sessions
  /\ sessions[last.sid].code = last.payload.code
  /\ \E b \in DOMAIN sessions \ {last.sid} :
       /\ sessions[b].status = "active"
       /\ sessions[b].code = defaultCode
       /\ sessions[b].code # last.payload.code

\* the messages a session's events send to other clients
ScopedEvents ==
  {"code-update", "language-update", "timer-update", "execution-update",
   "paste-detected", "candidate-test-results"}

\* C38 as stated: a connection that has joined sessions, and not the
\* session a code-update, language-update, timer-update, execution-update,
\* paste-detected or candidate-test-results is about, does not receive
\* that message when another connection causes it.
C38_BroadcastsStayInSession ==
  \A m \in out :
    (m.ev \in ScopedEvents /\ m.to # last.from /\ rooms[m.to] # {})
    => m.sid \in rooms[m.to]

----------------------------------------------------------------------------
(* A text without any inspected pattern (SpecRules) *)

\* C39 as stated: for every configured variant, execute-code on the empty
\* text, which holds none of the inspected methods or patterns, passes no
\* rule: the result has success = false, no bug fixed and 0 points.
C39_EmptyTextPassesNothing ==
  (/\ Graded(last)
   /\ last.payload.code[1] = EmptyCode
   /\ last.payload.language \in ConfiguredLanguages)
  => \A m \in Emitted(out, "execution-result") :
       /\ ~m.data.success
       /\ m.data.output.bugsFixed = 0
       /\ m.data.output.score = 0
       /\ \A i \in DOMAIN m.data.output.tests : ~m.data.output.tests[i].passed

\* the part of C39 that grading satisfies: under selenium-senior,
\* java-calculator and selenium-pageobject the empty text passes no rule
C39_EmptyTextFailsPresenceRules ==
  (/\ Graded(last)
   /\ last.payload.code[1] = EmptyCode
   /\ last.payload.language
        \in {"selenium-senior", "java-calculator", "selenium-pageobject"})
  => \A m \in Emitted(out, "execution-result") :
       /\ ~m.data.success
       /\ m.data.output.score = 0

----------------------------------------------------------------------------
(* Submissions that find no session to complete (Spec) *)

\* test-submitted addressed to an id that is absent from the store, or to a
\* session that is completed already
Resubmitted(l, store) ==
  /\ l.ev = "test-submitted"
  /\ l.sid \in DOMAIN store => store[l.sid].status = "completed"

\* C40 as stated: test-submitted for a session that is already completed,
\* or for an id absent from the store, changes no stored session and causes
\* no candidate-test-results.
C40_ResubmissionIsSilent ==
  [][Resubmitted(last', sessions)
       => /\ sessions' = sessions
          /\ Emitted(out', "candidate-test-results") = {}]_vars

\* the part of C40 that the handler satisfies: the store is left as it was
C40_ResubmissionKeepsStore ==
  [][Resubmitted(last', sessions) => sessions' = sessions]_vars

====
